---- MODULE Spec2Model ----
(***************************************************************************)
(* State-machine model of the NBA predictions bot (src/nba_predictions.py):*)
(* the retrying fetch layer, the team directory cache, the schedule wins   *)
(* cache and the last10 -> last5 -> home prediction engine.                *)
(*                                                                         *)
(* Every handler is one atomic action.  The answers of the provider (the   *)
(* outcome of each HTTP attempt) are inputs of the action, drawn from      *)
(* small sets.  Strings are sequences of one-character strings so that     *)
(* upper(), strip() and the alias table act on them as in the code.        *)
(***************************************************************************)
EXTENDS Integers, Sequences, FiniteSets, TLC

VARIABLES
    clock,                \* the value time.time() returns now
    TEAM_MAP_CACHE,       \* [none, map]: None, or abbreviation -> [id]
    TEAM_MAP_CACHE_TS,    \* time of the last successful reload
    SCHEDULE_WINS_CACHE,  \* (team_id, season_year, cutoff_key) -> win flags
    computed,             \* history: key -> flags returned by the call that computed it
    tasks,                \* the handlers in progress: each one's position and locals
    live_seen,            \* the file LIVE_SEEN_FILE: whether it exists, the keys in it
    chat,                 \* history: the key of every goal message delivered to CHAT_ID
    last                  \* the last call made: its arguments, what it saw, its outcome

vars == <<clock, TEAM_MAP_CACHE, TEAM_MAP_CACHE_TS, SCHEDULE_WINS_CACHE, computed, tasks,
          live_seen, chat, last>>

----------------------------------------------------------------------------
(* Program constants *)

MAX_RETRIES == 4

TEAM_MAP_TTL_SECONDS == 6 * 60 * 60

(* Bounds of the model *)

\* the clock stops after MaxLaps TTL periods (plus a margin) where the team
\* directory runs alone, after MaxBotLaps where the whole bot runs
MaxLaps == 2

MaxBotLaps == 1

\* time.sleep may return up to MaxOversleep time units late
MaxOversleep == 1

\* the rankings are cut to 1..MaxTopN rows and look at the last 1..MaxLastN
\* snapshots, besides the TOP_N and LAST_N_GWS of the code
MaxTopN == 2

MaxLastN == 2

\* short report texts have up to MaxTextLen characters, short blocks up to
\* MaxBlockLen
MaxTextLen == 4

MaxBlockLen == 3

\* the longest abbreviation handed to normalize_abbr
MaxAbbrLen == 3

\* the longest schedule made of the events of every kind
MaxEvents == 3

\* the longest cached sequence of outcomes a record is counted over
MaxFlags == 7

\* the provider lists up to MaxPeriods periods
MaxPeriods == 3

----------------------------------------------------------------------------
(* Python values *)

\* the str value used where the code holds None instead of a string
NoneStr == <<"<None>">>

Min(a, b) == IF a < b THEN a ELSE b

RECURSIVE Pow2(_)
Pow2(n) == IF n = 0 THEN 1 ELSE 2 * Pow2(n - 1)

LowerCase == <<"a","b","c","d","e","f","g","h","i","j","k","l","m",
               "n","o","p","q","r","s","t","u","v","w","x","y","z">>

UpperCase == <<"A","B","C","D","E","F","G","H","I","J","K","L","M",
               "N","O","P","Q","R","S","T","U","V","W","X","Y","Z">>

Whitespace == {" ", "\t", "\n"}

\* str.upper(), one character
UpperChar(c) ==
    IF \E i \in 1..Len(LowerCase) : LowerCase[i] = c
    THEN UpperCase[CHOOSE i \in 1..Len(LowerCase) : LowerCase[i] = c]
    ELSE c

\* str.upper()
Upper(s) == [i \in 1..Len(s) |-> UpperChar(s[i])]

RECURSIVE LStrip(_)
LStrip(s) ==
    IF s # <<>> /\ Head(s) \in Whitespace THEN LStrip(Tail(s)) ELSE s

RECURSIVE RStrip(_)
RStrip(s) ==
    IF s # <<>> /\ s[Len(s)] \in Whitespace
    THEN RStrip(SubSeq(s, 1, Len(s) - 1))
    ELSE s

\* str.strip()
Strip(s) == RStrip(LStrip(s))

----------------------------------------------------------------------------
(* Abbreviations *)

\* ABBR_FIX with a correction that is itself corrected
ABBR_FIX_Chained ==
    ( <<"G","S">>     :> <<"N","Y">> ) @@
    ( <<"N","Y">>     :> <<"N","Y","K">> )

ABBR_FIX ==
    ( <<"G","S">>     :> <<"G","S","W">> ) @@
    ( <<"S","A">>     :> <<"S","A","S">> ) @@
    ( <<"N","Y">>     :> <<"N","Y","K">> ) @@
    ( <<"W","S","H">> :> <<"W","A","S">> ) @@
    ( <<"N","O">>     :> <<"N","O","P">> ) @@
    ( <<"P","H","O">> :> <<"P","H","X">> ) @@
    ( <<"B","R","K">> :> <<"B","K","N">> ) @@
    ( <<"C","H","O">> :> <<"C","H","A">> )

\* abbr = (abbr or "").upper().strip(); return ABBR_FIX.get(abbr, abbr)
normalize_abbr(abbr) ==
    LET a == Strip(Upper(IF abbr = NoneStr \/ abbr = <<>> THEN <<>> ELSE abbr))
    IN  IF a \in DOMAIN ABBR_FIX THEN ABBR_FIX[a] ELSE a

----------------------------------------------------------------------------
(* Dates: a dt.date is [y, m, d]; a dt.datetime adds the minute of the day *)

Date(y, m, d) == [y |-> y, m |-> m, d |-> d]

\* d.strftime("%Y%m%d"), the digits read as a number
date_to_yyyymmdd(d) == d.y * 10000 + d.m * 100 + d.d

\* ordering of dt.date values
DateLess(a, b) ==
    \/ a.y < b.y
    \/ a.y = b.y /\ a.m < b.m
    \/ a.y = b.y /\ a.m = b.m /\ a.d < b.d

\* espn_season_year_for_date with the season starting in September
espn_season_year_for_date_FromSeptember(d) == IF d.m >= 9 THEN d.y ELSE d.y - 1

espn_season_year_for_date(d) == IF d.m >= 10 THEN d.y ELSE d.y - 1

----------------------------------------------------------------------------
(* Fetch layer.  A script is what the provider does at each HTTP attempt   *)
(* of one get_json_with_retries call: script[k] is the outcome of attempt  *)
(* k, either a decoded document or the exception the attempt raises.       *)

Ok(doc) == [ok |-> TRUE, doc |-> doc, err |-> "-"]

Err(e) == [ok |-> FALSE, doc |-> <<>>, err |-> e]

\* BackoffDelay growing linearly, 2 * attempt, instead of doubling
BackoffDelay_Linear(attempt) == Min(2 * attempt, 10)

\* time.sleep(min(2 ** attempt, 10))
BackoffDelay(attempt) == Min(Pow2(attempt), 10)

\* RetryLoop keeping the first error instead of the last
RECURSIVE RetryLoop_FirstError(_, _, _, _)
RetryLoop_FirstError(script, attempt, last_err, sleeps) ==
    IF attempt > MAX_RETRIES
    THEN [ok |-> FALSE, doc |-> <<>>, err |-> last_err,
          attempts |-> attempt - 1, sleeps |-> sleeps]
    ELSE IF script[attempt].ok
         THEN [ok |-> TRUE, doc |-> script[attempt].doc, err |-> "-",
               attempts |-> attempt, sleeps |-> sleeps]
         ELSE RetryLoop_FirstError(script, attempt + 1,
                        IF last_err = "-" THEN script[attempt].err ELSE last_err,
                        Append(sleeps, BackoffDelay(attempt)))

\* RetryLoop raising right after the last failed attempt, without a wait
RECURSIVE RetryLoop_NoFinalWait(_, _, _, _)
RetryLoop_NoFinalWait(script, attempt, last_err, sleeps) ==
    IF attempt > MAX_RETRIES
    THEN [ok |-> FALSE, doc |-> <<>>, err |-> last_err,
          attempts |-> attempt - 1, sleeps |-> sleeps]
    ELSE IF script[attempt].ok
         THEN [ok |-> TRUE, doc |-> script[attempt].doc, err |-> "-",
               attempts |-> attempt, sleeps |-> sleeps]
         ELSE RetryLoop_NoFinalWait(script, attempt + 1, script[attempt].err,
                        IF attempt < MAX_RETRIES THEN Append(sleeps, BackoffDelay(attempt))
                        ELSE sleeps)

\* the for loop of get_json_with_retries from `attempt` on; sleeps is the
\* sequence of waits made so far
RECURSIVE RetryLoop(_, _, _, _)
RetryLoop(script, attempt, last_err, sleeps) ==
    IF attempt > MAX_RETRIES
    THEN [ok |-> FALSE, doc |-> <<>>, err |-> last_err,
          attempts |-> attempt - 1, sleeps |-> sleeps]
    ELSE IF script[attempt].ok
         THEN [ok |-> TRUE, doc |-> script[attempt].doc, err |-> "-",
               attempts |-> attempt, sleeps |-> sleeps]
         ELSE RetryLoop(script, attempt + 1, script[attempt].err,
                        Append(sleeps, BackoffDelay(attempt)))

get_json_with_retries(script) == RetryLoop(script, 1, "-", <<>>)

----------------------------------------------------------------------------
(* Team directory *)

NoMap == [none |-> TRUE, map |-> <<>>]

SomeMap(m) == [none |-> FALSE, map |-> m]

\* truth value of the cache object: None and {} are both false
Truthy(c) == ~c.none /\ DOMAIN c.map # {}

\* one element of the provider's teams list: item["team"] with its "id"
\* (0 when the field is absent) and "abbreviation" ("" when absent)
TeamItem(id, abbreviation) == [id |-> id, abbreviation |-> abbreviation]

TeamsDoc(items) == [sports |-> << [leagues |-> << [teams |-> items] >>] >>]

\* the for loop over teams_list: later items overwrite earlier ones
RECURSIVE BuildTeamMap(_, _)
BuildTeamMap(teams_list, m) ==
    IF teams_list = <<>> THEN m
    ELSE LET team == Head(teams_list)
             tid  == team.id
             abbr == normalize_abbr(team.abbreviation)
         IN  IF tid # 0 /\ abbr # <<>>
             THEN BuildTeamMap(Tail(teams_list),
                     [a \in (DOMAIN m) \cup {abbr} |->
                         IF a = abbr THEN [id |-> tid] ELSE m[a]])
             ELSE BuildTeamMap(Tail(teams_list), m)

\* InstallTeamMap answering from the previous map when the reload fails
InstallTeamMap_Fallback(cache, ts, now, r) ==
    IF ~r.ok
    THEN IF Truthy(cache)
         THEN [ok |-> TRUE, map |-> cache.map, err |-> "-",
               cache |-> cache, ts |-> ts, fetches |-> 1, attempts |-> r.attempts]
         ELSE [ok |-> FALSE, map |-> <<>>, err |-> r.err,
               cache |-> cache, ts |-> ts, fetches |-> 1, attempts |-> r.attempts]
    ELSE LET sports     == r.doc.sports
             leagues    == IF sports # <<>> THEN sports[1].leagues ELSE <<>>
             teams_list == IF leagues # <<>> THEN leagues[1].teams ELSE <<>>
             Install(m) ==
                IF DOMAIN m = {}
                THEN [ok |-> FALSE, map |-> <<>>, err |-> "Failed to load team list from ESPN.",
                      cache |-> cache, ts |-> ts, fetches |-> 1, attempts |-> r.attempts]
                ELSE [ok |-> TRUE, map |-> m, err |-> "-",
                      cache |-> SomeMap(m), ts |-> now, fetches |-> 1, attempts |-> r.attempts]
         IN  Install(BuildTeamMap(teams_list, <<>>))

\* load_team_map() after the fetch answered r: build and install the map
InstallTeamMap(cache, ts, now, r) ==
    IF ~r.ok
    THEN [ok |-> FALSE, map |-> <<>>, err |-> r.err,
          cache |-> cache, ts |-> ts, fetches |-> 1, attempts |-> r.attempts]
    ELSE LET sports     == r.doc.sports
             leagues    == IF sports # <<>> THEN sports[1].leagues ELSE <<>>
             teams_list == IF leagues # <<>> THEN leagues[1].teams ELSE <<>>
             Install(m) ==
                IF DOMAIN m = {}
                THEN [ok |-> FALSE, map |-> <<>>, err |-> "Failed to load team list from ESPN.",
                      cache |-> cache, ts |-> ts, fetches |-> 1, attempts |-> r.attempts]
                ELSE [ok |-> TRUE, map |-> m, err |-> "-",
                      cache |-> SomeMap(m), ts |-> now, fetches |-> 1, attempts |-> r.attempts]
         IN  Install(BuildTeamMap(teams_list, <<>>))

\* load_team_map keeping the map until it is older than the TTL
load_team_map_Inclusive(cache, ts, now, script) ==
    IF Truthy(cache) /\ (now - ts) <= TEAM_MAP_TTL_SECONDS
    THEN [ok |-> TRUE, map |-> cache.map, err |-> "-",
          cache |-> cache, ts |-> ts, fetches |-> 0, attempts |-> 0]
    ELSE InstallTeamMap(cache, ts, now, get_json_with_retries(script))

\* load_team_map(): `now` is time.time() at entry, script the provider's
\* answers should the teams list be fetched
load_team_map(cache, ts, now, script) ==
    IF Truthy(cache) /\ (now - ts) < TEAM_MAP_TTL_SECONDS
    THEN [ok |-> TRUE, map |-> cache.map, err |-> "-",
          cache |-> cache, ts |-> ts, fetches |-> 0, attempts |-> 0]
    ELSE InstallTeamMap(cache, ts, now, get_json_with_retries(script))

----------------------------------------------------------------------------
(* Schedule wins cache *)

\* ev["date"]: absent, a string fromisoformat rejects, or an ISO date-time
NoDate == [kind |-> "absent", date |-> Date(0, 0, 0), minute |-> 0]

BadDate == [kind |-> "unparseable", date |-> Date(0, 0, 0), minute |-> 0]

IsoDate(d, minute) == [kind |-> "iso", date |-> d, minute |-> minute]

\* a competitor: team id (0 when absent) and the "winner" field
\* ("true", "false" or "absent")
Competitor(tid, winner) == [tid |-> tid, winner |-> winner]

Competition(completed, competitors) == [completed |-> completed, competitors |-> competitors]

Event(date, competitions) == [date |-> date, competitions |-> competitions]

\* ordering key of a dt.datetime
DtKey(g) == ((g.date.y * 12 + g.date.m) * 31 + g.date.d) * 1440 + g.minute

\* the loop over competitors: "none" when no competitor carries team_id,
\* else bool(c.get("winner")) of the first that does
RECURSIVE TeamWon(_, _)
TeamWon(competitors, team_id) ==
    IF competitors = <<>> THEN "none"
    ELSE LET c == Head(competitors)
         IN  IF c.tid = 0 THEN TeamWon(Tail(competitors), team_id)
             ELSE IF c.tid = team_id
                  THEN (IF c.winner = "true" THEN "won" ELSE "lost")
                  ELSE TeamWon(Tail(competitors), team_id)

RECURSIVE CollectWins_IncludeCutoffDay(_, _, _)
\* CollectWins keeping the games of the cutoff day
CollectWins_IncludeCutoffDay(events, team_id, cutoff_date) ==
    IF events = <<>> THEN <<>>
    ELSE LET ev   == Head(events)
             rest == CollectWins_IncludeCutoffDay(Tail(events), team_id, cutoff_date)
             won  == TeamWon(ev.competitions[1].competitors, team_id)
         IN  IF ev.date.kind # "iso" THEN rest
             ELSE IF DateLess(cutoff_date, ev.date.date) THEN rest
             ELSE IF ev.competitions = <<>> THEN rest
             ELSE IF ~ev.competitions[1].completed THEN rest
             ELSE IF won = "none" THEN rest
             ELSE <<[dt |-> DtKey(ev.date), won |-> (won = "won")]>> \o rest

\* the loop over events: the (game_dt, team_won) pairs appended to wins
RECURSIVE CollectWins(_, _, _)
CollectWins(events, team_id, cutoff_date) ==
    IF events = <<>> THEN <<>>
    ELSE LET ev   == Head(events)
             rest == CollectWins(Tail(events), team_id, cutoff_date)
             won  == TeamWon(ev.competitions[1].competitors, team_id)
         IN  IF ev.date.kind # "iso" THEN rest
             ELSE IF ~DateLess(ev.date.date, cutoff_date) THEN rest
             ELSE IF ev.competitions = <<>> THEN rest
             ELSE IF ~ev.competitions[1].completed THEN rest
             ELSE IF won = "none" THEN rest
             ELSE <<[dt |-> DtKey(ev.date), won |-> (won = "won")]>> \o rest

\* position kept by a stable descending sort: after every element whose key
\* is not smaller
RECURSIVE InsertDesc(_, _)
InsertDesc(sorted, x) ==
    IF sorted = <<>> THEN <<x>>
    ELSE IF Head(sorted).dt >= x.dt
         THEN <<Head(sorted)>> \o InsertDesc(Tail(sorted), x)
         ELSE <<x>> \o sorted

\* wins.sort(key=lambda x: x[0], reverse=True)
RECURSIVE SortDesc(_, _)
SortDesc(wins, acc) ==
    IF wins = <<>> THEN acc
    ELSE SortDesc(Tail(wins), InsertDesc(acc, Head(wins)))

CacheKey(team_id, season_year, cutoff_date) ==
    <<team_id, season_year, date_to_yyyymmdd(cutoff_date)>>

\* win_flags = [w for _, w in wins]
WinFlags(wins) == [i \in 1..Len(wins) |-> wins[i].won]

\* StoreWins emptying the cache before it stores the new entry
StoreWins_ClearFirst(cache, cache_key, win_flags) ==
    [ok |-> TRUE, flags |-> win_flags, err |-> "-",
     cache |-> [k \in {cache_key} |-> win_flags],
     fetches |-> 1]

\* SCHEDULE_WINS_CACHE[cache_key] = win_flags; return win_flags
StoreWins(cache, cache_key, win_flags) ==
    [ok |-> TRUE, flags |-> win_flags, err |-> "-",
     cache |-> [k \in (DOMAIN cache) \cup {cache_key} |->
                   IF k = cache_key THEN win_flags ELSE cache[k]],
     fetches |-> 1]

\* ComputeWins storing an empty sequence for the key when the fetch failed
ComputeWins_NegativeCache(cache, cache_key, team_id, cutoff_date, r) ==
    IF ~r.ok
    THEN [ok |-> FALSE, flags |-> <<>>, err |-> r.err,
          cache |-> [k \in (DOMAIN cache) \cup {cache_key} |->
                        IF k = cache_key THEN <<>> ELSE cache[k]],
          fetches |-> 1]
    ELSE StoreWins(cache, cache_key,
                   WinFlags(SortDesc(CollectWins(r.doc.events, team_id, cutoff_date), <<>>)))

\* fetch_team_recent_wins after the fetch answered r
ComputeWins(cache, cache_key, team_id, cutoff_date, r) ==
    IF ~r.ok
    THEN [ok |-> FALSE, flags |-> <<>>, err |-> r.err, cache |-> cache, fetches |-> 1]
    ELSE StoreWins(cache, cache_key,
                   WinFlags(SortDesc(CollectWins(r.doc.events, team_id, cutoff_date), <<>>)))

\* fetch_team_recent_wins without the cache lookup
fetch_team_recent_wins_Refetch(cache, team_id, season_year, cutoff_date, script) ==
    ComputeWins(cache, CacheKey(team_id, season_year, cutoff_date),
                team_id, cutoff_date, get_json_with_retries(script))

\* fetch_team_recent_wins(team_id, season_year, cutoff_date) on cache
\* `cache`; script is the provider's answers should the schedule be fetched
fetch_team_recent_wins(cache, team_id, season_year, cutoff_date, script) ==
    IF CacheKey(team_id, season_year, cutoff_date) \in DOMAIN cache
    THEN [ok |-> TRUE, flags |-> cache[CacheKey(team_id, season_year, cutoff_date)],
          err |-> "-", cache |-> cache, fetches |-> 0]
    ELSE ComputeWins(cache, CacheKey(team_id, season_year, cutoff_date),
                     team_id, cutoff_date, get_json_with_retries(script))

\* Slice taking the last n entries
Slice_Tail(win_flags, n) == SubSeq(win_flags, Len(win_flags) - Min(n, Len(win_flags)) + 1, Len(win_flags))

\* win_flags[:n]
Slice(win_flags, n) == SubSeq(win_flags, 1, Min(n, Len(win_flags)))

\* sum(1 for x in sample if x)
CountWins(sample) == Cardinality({i \in 1..Len(sample) : sample[i]})

\* record_last_n once fetch_team_recent_wins returned f
CountSample(f, sample) ==
    [ok |-> f.ok, w |-> CountWins(sample), l |-> Len(sample) - CountWins(sample),
     err |-> f.err, cache |-> f.cache, fetches |-> f.fetches]

RecordOf(f, n) == CountSample(f, Slice(f.flags, n))

\* record_last_n(team_id, season_year, cutoff_date, n)
record_last_n(cache, team_id, season_year, cutoff_date, n, script) ==
    RecordOf(fetch_team_recent_wins(cache, team_id, season_year, cutoff_date, script), n)

----------------------------------------------------------------------------
(* Prediction engine *)

\* the value of away5 / home5 when the last-5 step is not reached (None)
NoRecord == <<>>

\* what a pick_winner call leaves: its result or exception, the caches, and
\* the number of fetch-layer calls it made for the teams list and for schedules
PickOutcome(status, err, unknown, winner, info, tm, wcache, schedFetches) ==
    [status |-> status, err |-> err, unknown |-> unknown, winner |-> winner,
     info |-> info, dcache |-> tm.cache, ts |-> tm.ts, wcache |-> wcache,
     dirOk |-> tm.ok, dirFetches |-> tm.fetches, schedFetches |-> schedFetches]

NoInfo(away, home) ==
    [away |-> away, home |-> home, away10 |-> NoRecord, home10 |-> NoRecord,
     away5 |-> NoRecord, home5 |-> NoRecord, reason |-> "-"]

\* an exception leaves pick_winner
PickRaise(status, err, unknown, away, home, tm, wcache, schedFetches) ==
    PickOutcome(status, err, unknown, <<>>, NoInfo(away, home), tm, wcache, schedFetches)

\* PickByLast5 with the last-5 comparison inverted
PickByLast5_Inverted(away, home, tm, a10, h10, a5, h5) ==
    IF ~a5.ok
    THEN PickRaise("error", a5.err, <<>>, away, home, tm, a5.cache,
                   a10.fetches + h10.fetches + a5.fetches)
    ELSE IF ~h5.ok
    THEN PickRaise("error", h5.err, <<>>, away, home, tm, h5.cache,
                   a10.fetches + h10.fetches + a5.fetches + h5.fetches)
    ELSE PickOutcome("ok", "-", <<>>,
            IF a5.w # h5.w THEN (IF a5.w < h5.w THEN away ELSE home) ELSE home,
            [away |-> away, home |-> home,
             away10 |-> <<a10.w, a10.l>>, home10 |-> <<h10.w, h10.l>>,
             away5 |-> <<a5.w, a5.l>>, home5 |-> <<h5.w, h5.l>>,
             reason |-> IF a5.w # h5.w THEN "last5" ELSE "home_tiebreak"],
            tm, h5.cache, a10.fetches + h10.fetches + a5.fetches + h5.fetches)

\* PickByLast5 with the final tie given to the away team
PickByLast5_AwayTie(away, home, tm, a10, h10, a5, h5) ==
    IF ~a5.ok
    THEN PickRaise("error", a5.err, <<>>, away, home, tm, a5.cache,
                   a10.fetches + h10.fetches + a5.fetches)
    ELSE IF ~h5.ok
    THEN PickRaise("error", h5.err, <<>>, away, home, tm, h5.cache,
                   a10.fetches + h10.fetches + a5.fetches + h5.fetches)
    ELSE PickOutcome("ok", "-", <<>>,
            IF a5.w # h5.w THEN (IF a5.w > h5.w THEN away ELSE home) ELSE away,
            [away |-> away, home |-> home,
             away10 |-> <<a10.w, a10.l>>, home10 |-> <<h10.w, h10.l>>,
             away5 |-> <<a5.w, a5.l>>, home5 |-> <<h5.w, h5.l>>,
             reason |-> IF a5.w # h5.w THEN "last5" ELSE "home_tiebreak"],
            tm, h5.cache, a10.fetches + h10.fetches + a5.fetches + h5.fetches)

\* the else branch, once the two last-5 records a5 and h5 are there
PickByLast5(away, home, tm, a10, h10, a5, h5) ==
    IF ~a5.ok
    THEN PickRaise("error", a5.err, <<>>, away, home, tm, a5.cache,
                   a10.fetches + h10.fetches + a5.fetches)
    ELSE IF ~h5.ok
    THEN PickRaise("error", h5.err, <<>>, away, home, tm, h5.cache,
                   a10.fetches + h10.fetches + a5.fetches + h5.fetches)
    ELSE PickOutcome("ok", "-", <<>>,
            IF a5.w # h5.w THEN (IF a5.w > h5.w THEN away ELSE home) ELSE home,
            [away |-> away, home |-> home,
             away10 |-> <<a10.w, a10.l>>, home10 |-> <<h10.w, h10.l>>,
             away5 |-> <<a5.w, a5.l>>, home5 |-> <<h5.w, h5.l>>,
             reason |-> IF a5.w # h5.w THEN "last5" ELSE "home_tiebreak"],
            tm, h5.cache, a10.fetches + h10.fetches + a5.fetches + h5.fetches)

\* the second record_last_n(away_id, ..., 5) returned a5: fetch the home one
PickAfterAway5(away, home, tm, home_id, season_year, cutoff_date, a10, h10, a5, hscript) ==
    PickByLast5(away, home, tm, a10, h10, a5,
                record_last_n(a5.cache, home_id, season_year, cutoff_date, 5, hscript))

\* PickByLast10 deciding on last-10 wins only when they differ by two or more
PickByLast10_Margin(away, home, tm, away_id, home_id, season_year, cutoff_date, a10, h10, ascript, hscript) ==
    IF ~h10.ok
    THEN PickRaise("error", h10.err, <<>>, away, home, tm, h10.cache,
                   a10.fetches + h10.fetches)
    ELSE IF a10.w > h10.w + 1 \/ h10.w > a10.w + 1
    THEN PickOutcome("ok", "-", <<>>, IF a10.w > h10.w THEN away ELSE home,
            [away |-> away, home |-> home,
             away10 |-> <<a10.w, a10.l>>, home10 |-> <<h10.w, h10.l>>,
             away5 |-> NoRecord, home5 |-> NoRecord, reason |-> "last10"],
            tm, h10.cache, a10.fetches + h10.fetches)
    ELSE PickAfterAway5(away, home, tm, home_id, season_year, cutoff_date, a10, h10,
            record_last_n(h10.cache, away_id, season_year, cutoff_date, 5, ascript),
            hscript)

\* PickByLast10 computing the last-5 records before the comparison and
\* returning them in every breakdown
PickByLast10_AlwaysLast5(away, home, tm, away_id, home_id, season_year, cutoff_date, a10, h10, ascript, hscript) ==
    IF ~h10.ok
    THEN PickRaise("error", h10.err, <<>>, away, home, tm, h10.cache,
                   a10.fetches + h10.fetches)
    ELSE IF a10.w # h10.w
    THEN PickOutcome("ok", "-", <<>>, IF a10.w > h10.w THEN away ELSE home,
            [away |-> away, home |-> home,
             away10 |-> <<a10.w, a10.l>>, home10 |-> <<h10.w, h10.l>>,
             away5 |-> <<a10.w, a10.l>>, home5 |-> <<h10.w, h10.l>>, reason |-> "last10"],
            tm, h10.cache, a10.fetches + h10.fetches)
    ELSE PickAfterAway5(away, home, tm, home_id, season_year, cutoff_date, a10, h10,
            record_last_n(h10.cache, away_id, season_year, cutoff_date, 5, ascript),
            hscript)

\* the comparison of the two last-10 records a10 and h10
PickByLast10(away, home, tm, away_id, home_id, season_year, cutoff_date, a10, h10, ascript, hscript) ==
    IF ~h10.ok
    THEN PickRaise("error", h10.err, <<>>, away, home, tm, h10.cache,
                   a10.fetches + h10.fetches)
    ELSE IF a10.w # h10.w
    THEN PickOutcome("ok", "-", <<>>, IF a10.w > h10.w THEN away ELSE home,
            [away |-> away, home |-> home,
             away10 |-> <<a10.w, a10.l>>, home10 |-> <<h10.w, h10.l>>,
             away5 |-> NoRecord, home5 |-> NoRecord, reason |-> "last10"],
            tm, h10.cache, a10.fetches + h10.fetches)
    ELSE PickAfterAway5(away, home, tm, home_id, season_year, cutoff_date, a10, h10,
            record_last_n(h10.cache, away_id, season_year, cutoff_date, 5, ascript),
            hscript)

\* record_last_n(away_id, ..., 10) returned a10: fetch the home one
PickAfterAway10(away, home, tm, away_id, home_id, season_year, cutoff_date, a10, ascript, hscript) ==
    IF ~a10.ok
    THEN PickRaise("error", a10.err, <<>>, away, home, tm, a10.cache, a10.fetches)
    ELSE PickByLast10(away, home, tm, away_id, home_id, season_year, cutoff_date, a10,
            record_last_n(a10.cache, home_id, season_year, cutoff_date, 10, hscript),
            ascript, hscript)

\* PickWithMap testing the away abbreviation twice: an unknown home team
\* reaches team_map[home] and leaves as a KeyError
PickWithMap_AwayTwice(away, home, tm, wcache, cutoff_date, ascript, hscript) ==
    IF ~tm.ok
    THEN PickRaise("error", tm.err, <<>>, away, home, tm, wcache, 0)
    ELSE IF away \notin DOMAIN tm.map
    THEN PickRaise("unknown_team", "Unknown team abbreviation", away, away, home, tm, wcache, 0)
    ELSE IF home \notin DOMAIN tm.map
    THEN PickRaise("error", "KeyError", <<>>, away, home, tm, wcache, 0)
    ELSE PickAfterAway10(away, home, tm, tm.map[away].id, tm.map[home].id,
            espn_season_year_for_date(cutoff_date), cutoff_date,
            record_last_n(wcache, tm.map[away].id, espn_season_year_for_date(cutoff_date),
                          cutoff_date, 10, ascript),
            ascript, hscript)

\* PickWithMap asking for the away team's record before it tests the home
\* abbreviation
PickWithMap_RecordFirst(away, home, tm, wcache, cutoff_date, ascript, hscript) ==
    IF ~tm.ok
    THEN PickRaise("error", tm.err, <<>>, away, home, tm, wcache, 0)
    ELSE IF away \notin DOMAIN tm.map
    THEN PickRaise("unknown_team", "Unknown team abbreviation", away, away, home, tm, wcache, 0)
    ELSE IF home \notin DOMAIN tm.map
    THEN PickRaise("unknown_team", "Unknown team abbreviation", home, away, home, tm, wcache,
            record_last_n(wcache, tm.map[away].id, espn_season_year_for_date(cutoff_date),
                          cutoff_date, 10, ascript).fetches)
    ELSE PickAfterAway10(away, home, tm, tm.map[away].id, tm.map[home].id,
            espn_season_year_for_date(cutoff_date), cutoff_date,
            record_last_n(wcache, tm.map[away].id, espn_season_year_for_date(cutoff_date),
                          cutoff_date, 10, ascript),
            ascript, hscript)

\* pick_winner once load_team_map returned tm
PickWithMap(away, home, tm, wcache, cutoff_date, ascript, hscript) ==
    IF ~tm.ok
    THEN PickRaise("error", tm.err, <<>>, away, home, tm, wcache, 0)
    ELSE IF away \notin DOMAIN tm.map
    THEN PickRaise("unknown_team", "Unknown team abbreviation", away, away, home, tm, wcache, 0)
    ELSE IF home \notin DOMAIN tm.map
    THEN PickRaise("unknown_team", "Unknown team abbreviation", home, away, home, tm, wcache, 0)
    ELSE PickAfterAway10(away, home, tm, tm.map[away].id, tm.map[home].id,
            espn_season_year_for_date(cutoff_date), cutoff_date,
            record_last_n(wcache, tm.map[away].id, espn_season_year_for_date(cutoff_date),
                          cutoff_date, 10, ascript),
            ascript, hscript)

\* pick_winner(away_abbr, home_abbr, cutoff_date) run on the two caches at
\* time `now`; dscript, ascript and hscript are the provider's answers to
\* the teams fetch and to the away and home schedule fetches, if made
pick_winner(dcache, ts, now, wcache, away_abbr, home_abbr, cutoff_date, dscript, ascript, hscript) ==
    PickWithMap(normalize_abbr(away_abbr), normalize_abbr(home_abbr),
                load_team_map(dcache, ts, now, dscript),
                wcache, cutoff_date, ascript, hscript)

----------------------------------------------------------------------------
(* What the provider may answer, and the arguments the calls are made with *)

GS == <<"G","S">>

GSW == <<"G","S","W">>

BOS == <<"B","O","S">>

NY == <<"N","Y">>

\* GS (alias of GSW) and BOS with ids; NY without id and an item without
\* abbreviation are dropped by the loop
TeamsDocFull == TeamsDoc(<< TeamItem(9, GS), TeamItem(2, BOS), TeamItem(0, NY), TeamItem(7, <<>>) >>)

\* a later state of the provider: BOS is gone
TeamsDocGSWOnly == TeamsDoc(<< TeamItem(9, GSW) >>)

TeamsDocNoSports == [sports |-> <<>>]

TeamsDocNoLeagues == [sports |-> << [leagues |-> <<>>] >>]

TeamsDocNoUsableTeam == TeamsDoc(<< TeamItem(0, NY) >>)

TeamsDocs == {TeamsDocFull, TeamsDocGSWOnly, TeamsDocNoSports, TeamsDocNoLeagues, TeamsDocNoUsableTeam}

TeamIds == {9, 2}

\* the exception raised by HTTP attempt k
ErrAt(k) == <<"attempt 1 failed", "attempt 2 failed", "attempt 3 failed", "attempt 4 failed", "attempt 5 failed">>[k]

FirstTry(doc) == [k \in 1..MAX_RETRIES |-> Ok(doc)]

SecondTry(doc) == [k \in 1..MAX_RETRIES |-> IF k = 1 THEN Err(ErrAt(1)) ELSE Ok(doc)]

AllFail == [k \in 1..MAX_RETRIES |-> Err(ErrAt(k))]

\* stands for the provider where the call makes no fetch
NoScript == [k \in 1..MAX_RETRIES |-> Err("not fetched")]

TeamScripts == {FirstTry(d) : d \in TeamsDocs} \cup {SecondTry(TeamsDocFull), AllFail}

\* what one HTTP attempt may do
AttemptOutcomes == {Ok(TeamsDocGSWOnly), Ok(TeamsDocNoSports), Err("timeout"), Err("HTTP 500")}

AllScripts == [1..MAX_RETRIES -> AttemptOutcomes]

\* a directory that loads or does not
FewTeamScripts == {FirstTry(TeamsDocFull), AllFail}

\* a completed game of team tid on 2025-month-day against team 1
Game(tid, month, day, won) ==
    Event(IsoDate(Date(2025, month, day), 60),
          << Competition(TRUE, << Competitor(1, IF won THEN "false" ELSE "true"),
                                  Competitor(tid, IF won THEN "true" ELSE "false") >>) >>)

\* a season of October games in chronological order; results[i] is the result
\* of the game on October 19 + i
October(tid, results) == [i \in 1..Len(results) |-> Game(tid, 10, 19 + i, results[i])]

W == TRUE

L == FALSE

\* most recent first: W W W L L  W W W L L  W W   (last10 6-4, last5 3-2)
ScheduleSixThree(tid) == [events |-> October(tid, <<W, W, L, L, W, W, W, L, L, W, W, W>>)]

\* most recent first: L L L L W  W W W W W        (last10 6-4, last5 1-4)
ScheduleSixOne(tid) == [events |-> October(tid, <<W, W, W, W, W, W, L, L, L, L>>)]

\* most recent first: W W W W L  L L L L W        (last10 5-5, last5 4-1)
ScheduleFiveFour(tid) == [events |-> October(tid, <<W, L, L, L, L, L, W, W, W, W>>)]

ScheduleEmpty(tid) == [events |-> <<>>]

\* events the loop must skip next to events it keeps, out of order
ScheduleIrregular(tid) ==
    [events |-> <<
        Game(tid, 10, 30, W),
        Event(NoDate, << Competition(TRUE, << Competitor(tid, "true") >>) >>),
        Event(BadDate, << Competition(TRUE, << Competitor(tid, "true") >>) >>),
        Event(IsoDate(Date(2025, 10, 31), 0), <<>>),
        Event(IsoDate(Date(2025, 10, 31), 30), << Competition(FALSE, << Competitor(tid, "true") >>) >>),
        Game(tid, 11, 1, L),
        Event(IsoDate(Date(2025, 10, 29), 0), << Competition(TRUE, << Competitor(0, "true"), Competitor(1, "true") >>) >>),
        Event(IsoDate(Date(2025, 10, 28), 0), << Competition(TRUE, << Competitor(tid, "absent") >>) >>),
        Game(tid, 12, 25, W) >>]

\* the answers to the schedule fetch of each team: every season above, at
\* the first or the second attempt, or no answer at all
ScheduleScripts ==
    [tid \in TeamIds |->
        {FirstTry(d) : d \in {ScheduleSixThree(tid), ScheduleSixOne(tid), ScheduleFiveFour(tid),
                              ScheduleEmpty(tid), ScheduleIrregular(tid)}}
        \cup {SecondTry(ScheduleSixThree(tid)), AllFail}]

\* two seasons that differ, or no answer
FewScheduleScripts ==
    [tid \in TeamIds |-> {FirstTry(ScheduleSixThree(tid)), FirstTry(ScheduleIrregular(tid)), AllFail}]

\* both cutoffs fall in season 2025; the irregular season differs between them
Cutoffs == {Date(2026, 2, 19), Date(2025, 11, 1)}

OneCutoff == {Date(2025, 11, 1)}

\* abbreviations as callers pass them: an alias, a form to upper-case and
\* strip, and one no team list carries
RawAbbrs == {GS, <<" ","b","o","s">>, <<"X","Y","Z">>}

KnownAbbrs == {GS, <<" ","b","o","s">>}

PickWindowSizes == {5, 10}

\* seconds before (negative) or after the moment the team map turns
\* TEAM_MAP_TTL_SECONDS old at which the clock is read
AroundExpiry == {0 - 1, 0, 1}

AtExpiry == {0}

----------------------------------------------------------------------------
(* Live goal events: bot_test.py *)

\* save_set keeps at most this many keys of the set
KEEP_LAST == 5000

\* LIVE_SEEN_FILE before the first save_set, and after one
NoFile == [exists |-> FALSE, keys |-> {}]

File(keys) == [exists |-> TRUE, keys |-> keys]

\* load_set: the keys of the file, the empty set where there is no file
load_set(file) == IF file.exists THEN file.keys ELSE {}

\* save_set: what the file can hold after the call. list(s) lists the set in
\* an order the program does not control, so above keep_last keys any
\* keep_last of them may be the ones kept.
save_set(s, keep_last) ==
    IF Cardinality(s) > keep_last
    THEN {File(kept) : kept \in {x \in SUBSET s : Cardinality(x) = keep_last}}
    ELSE {File(s)}

\* ev.get("assist", {}).get("name"): None, or the name
NoName == [none |-> TRUE, name |-> ""]

Name(n) == [none |-> FALSE, name |-> n]

\* what an f-string writes for it
FormatName(a) == IF a.none THEN "None" ELSE a.name

GoalEvent(type, elapsed, player, assist, detail) ==
    [type |-> type, elapsed |-> elapsed, player |-> player, assist |-> assist,
     detail |-> detail]

\* ev_key = f"{fixture_id}:{minute}:{scorer}:{assist}:{detail}"
ev_key(fixture_id, ev) ==
    ToString(fixture_id) \o ":" \o ToString(ev.elapsed) \o ":" \o ev.player
        \o ":" \o FormatName(ev.assist) \o ":" \o ev.detail

\* the locals of one poll: the seen set, the keys of the messages delivered,
\* the number of send_message calls made, whether the last one raised
Poll(seen, sent, sends, raised) ==
    [seen |-> seen, sent |-> sent, sends |-> sends, raised |-> raised]

\* the loop over the events of one fixture; the send_message call number
\* `fails` raises (none does when fails = 0), and the exception leaves the loop
RECURSIVE GoalLoop(_, _, _, _)
GoalLoop(fixture_id, events, fails, st) ==
    IF events = <<>> \/ st.raised THEN st
    ELSE LET ev == Head(events)
             key == ev_key(fixture_id, ev)
         IN  IF ev.type # "Goal" \/ key \in st.seen
             THEN GoalLoop(fixture_id, Tail(events), fails, st)
             ELSE IF st.sends + 1 = fails
             THEN Poll(st.seen, st.sent, st.sends + 1, TRUE)
             ELSE GoalLoop(fixture_id, Tail(events), fails,
                           Poll(st.seen \cup {key}, Append(st.sent, key),
                                st.sends + 1, FALSE))

\* the loop over the live fixtures; a fixture whose events cannot be fetched
\* is skipped
RECURSIVE FixtureLoop(_, _, _, _)
FixtureLoop(fixtures, answers, fails, st) ==
    IF fixtures = <<>> \/ st.raised THEN st
    ELSE LET fixture_id == Head(fixtures)
             a == answers[fixture_id]
         IN  IF ~a.ok
             THEN FixtureLoop(Tail(fixtures), answers, fails, st)
             ELSE FixtureLoop(Tail(fixtures), answers, fails,
                              GoalLoop(fixture_id, a.events, fails, st))

\* post_live_events: the keys of the messages it delivered, whether a
\* send_message raised, and the set it passed to save_set if it got there
post_live_events(configured, file, live, answers, fails) ==
    IF ~configured
    THEN [sent |-> <<>>, raised |-> FALSE, saved |-> FALSE, seen |-> {}]
    ELSE LET seen == load_set(file)
         IN  IF ~live.ok
             THEN [sent |-> <<>>, raised |-> FALSE, saved |-> FALSE, seen |-> seen]
             ELSE LET st == FixtureLoop(live.fixtures, answers, fails,
                                        Poll(seen, <<>>, 0, FALSE))
                  IN  [sent |-> st.sent, raised |-> st.raised,
                       saved |-> ~st.raised, seen |-> st.seen]

----------------------------------------------------------------------------

(* State machine *)

NoCall == [op |-> "none"]

Init ==
    /\ clock = 0
    /\ TEAM_MAP_CACHE = NoMap
    /\ TEAM_MAP_CACHE_TS = 0
    /\ SCHEDULE_WINS_CACHE = <<>>
    /\ computed = <<>>
    /\ tasks = <<>>
    /\ live_seen = NoFile
    /\ chat = <<>>
    /\ last = NoCall

\* the first call that computes a key fixes its entry in `computed`
Remember(cache) ==
    [k \in (DOMAIN computed) \cup (DOMAIN cache) |->
        IF k \in DOMAIN computed THEN computed[k] ELSE cache[k]]

\* time passes, up to one of the moments `offsets` around the expiry of the
\* team map
TickTo(offsets, laps) ==
    /\ \E o \in offsets :
          LET t == TEAM_MAP_CACHE_TS + TEAM_MAP_TTL_SECONDS + o
          IN  /\ t > clock
              /\ t <= laps * TEAM_MAP_TTL_SECONDS + 2
              /\ clock' = t
    /\ UNCHANGED <<TEAM_MAP_CACHE, TEAM_MAP_CACHE_TS, SCHEDULE_WINS_CACHE, computed, tasks, last>>
    /\ UNCHANGED <<live_seen, chat>>

\* whether load_team_map would fetch now
Stale == ~(Truthy(TEAM_MAP_CACHE) /\ (clock - TEAM_MAP_CACHE_TS) < TEAM_MAP_TTL_SECONDS)

\* a caller looks the team map up
LoadTeamMapFrom(teamScripts) ==
    \E script \in (IF Stale THEN teamScripts ELSE {NoScript}) :
        \E r \in {load_team_map(TEAM_MAP_CACHE, TEAM_MAP_CACHE_TS, clock, script)} :
            /\ TEAM_MAP_CACHE' = r.cache
            /\ TEAM_MAP_CACHE_TS' = r.ts
            /\ last' = [op |-> "load_team_map", now |-> clock, script |-> script,
                        hadMap |-> Truthy(TEAM_MAP_CACHE),
                        age |-> clock - TEAM_MAP_CACHE_TS,
                        ok |-> r.ok, map |-> r.map, err |-> r.err,
                        fetches |-> r.fetches, attempts |-> r.attempts]
            /\ UNCHANGED <<clock, SCHEDULE_WINS_CACHE, computed, tasks>>
            /\ UNCHANGED <<live_seen, chat>>

\* a caller asks for a team's outcomes before a cutoff
FetchTeamRecentWinsFrom(cutoffs, scheduleScripts) ==
    \E team_id \in TeamIds, cutoff_date \in cutoffs :
        LET season_year == espn_season_year_for_date(cutoff_date)
            key == CacheKey(team_id, season_year, cutoff_date)
        IN  \E script \in (IF key \in DOMAIN SCHEDULE_WINS_CACHE
                           THEN {NoScript} ELSE scheduleScripts[team_id]) :
                \E r \in {fetch_team_recent_wins(SCHEDULE_WINS_CACHE, team_id,
                                                season_year, cutoff_date, script)} :
                    /\ SCHEDULE_WINS_CACHE' = r.cache
                    /\ computed' = Remember(r.cache)
                    /\ last' = [op |-> "fetch_team_recent_wins", key |-> key,
                                cached |-> key \in DOMAIN SCHEDULE_WINS_CACHE,
                                ok |-> r.ok, flags |-> r.flags, err |-> r.err,
                                fetches |-> r.fetches]
                    /\ UNCHANGED <<clock, TEAM_MAP_CACHE, TEAM_MAP_CACHE_TS, tasks>>
                    /\ UNCHANGED <<live_seen, chat>>

\* a caller asks for a team's record over its last n games
RecordLastNFrom(cutoffs, sizes, scheduleScripts) ==
    \E team_id \in TeamIds, cutoff_date \in cutoffs, n \in sizes :
        LET season_year == espn_season_year_for_date(cutoff_date)
            key == CacheKey(team_id, season_year, cutoff_date)
        IN  \E script \in (IF key \in DOMAIN SCHEDULE_WINS_CACHE
                           THEN {NoScript} ELSE scheduleScripts[team_id]) :
                \E r \in {record_last_n(SCHEDULE_WINS_CACHE, team_id,
                                       season_year, cutoff_date, n, script)} :
                    /\ SCHEDULE_WINS_CACHE' = r.cache
                    /\ computed' = Remember(r.cache)
                    /\ last' = [op |-> "record_last_n", key |-> key, n |-> n,
                                cached |-> key \in DOMAIN SCHEDULE_WINS_CACHE,
                                ok |-> r.ok, w |-> r.w, l |-> r.l, err |-> r.err,
                                fetches |-> r.fetches]
                    /\ UNCHANGED <<clock, TEAM_MAP_CACHE, TEAM_MAP_CACHE_TS, tasks>>
                    /\ UNCHANGED <<live_seen, chat>>

\* the team id a schedule fetch of pick_winner would be made for, 0 if the
\* abbreviation does not resolve in the map `m`
IdIn(m, abbr) == IF normalize_abbr(abbr) \in DOMAIN m THEN m[normalize_abbr(abbr)].id ELSE 0

\* a caller asks for the winner of away @ home
PickWinnerFrom(abbrs, cutoffs, teamScripts, scheduleScripts) ==
    \E away_abbr \in abbrs, home_abbr \in abbrs, cutoff_date \in cutoffs :
    \E dscript \in (IF Stale THEN teamScripts ELSE {NoScript}) :
    \E tm \in {load_team_map(TEAM_MAP_CACHE, TEAM_MAP_CACHE_TS, clock, dscript)} :
    \E away_id \in {IdIn(tm.map, away_abbr)}, home_id \in {IdIn(tm.map, home_abbr)} :
        LET resolved == tm.ok /\ away_id # 0 /\ home_id # 0
            season_year == espn_season_year_for_date(cutoff_date)
            akey == CacheKey(away_id, season_year, cutoff_date)
            hkey == CacheKey(home_id, season_year, cutoff_date)
        IN  \E ascript \in (IF resolved /\ akey \notin DOMAIN SCHEDULE_WINS_CACHE
                            THEN scheduleScripts[away_id] ELSE {NoScript}) :
            \E hscript \in (IF resolved /\ hkey \notin DOMAIN SCHEDULE_WINS_CACHE /\ hkey # akey
                               /\ (akey \in DOMAIN SCHEDULE_WINS_CACHE
                                   \/ get_json_with_retries(ascript).ok)
                            THEN scheduleScripts[home_id] ELSE {NoScript}) :
                \E r \in {pick_winner(TEAM_MAP_CACHE, TEAM_MAP_CACHE_TS, clock,
                                     SCHEDULE_WINS_CACHE, away_abbr, home_abbr,
                                     cutoff_date, dscript, ascript, hscript)} :
                    /\ TEAM_MAP_CACHE' = r.dcache
                    /\ TEAM_MAP_CACHE_TS' = r.ts
                    /\ SCHEDULE_WINS_CACHE' = r.wcache
                    /\ computed' = Remember(r.wcache)
                    /\ last' = [op |-> "pick_winner", away_abbr |-> away_abbr,
                                home_abbr |-> home_abbr, cutoff_date |-> cutoff_date,
                                status |-> r.status, err |-> r.err, unknown |-> r.unknown,
                                winner |-> r.winner, info |-> r.info,
                                dirOk |-> r.dirOk, dirFetches |-> r.dirFetches,
                                schedFetches |-> r.schedFetches]
                    /\ UNCHANGED <<clock, tasks>>
                    /\ UNCHANGED <<live_seen, chat>>

----------------------------------------------------------------------------
(* Dates of the /preds command *)

IsLeap(y) == (y % 4 = 0 /\ y % 100 # 0) \/ y % 400 = 0

DaysInMonth(y, m) ==
    IF m = 2 THEN (IF IsLeap(y) THEN 29 ELSE 28)
    ELSE IF m \in {4, 6, 9, 11} THEN 30 ELSE 31

\* utc_today() + dt.timedelta(days=1)
get_tomorrow_utc(today) ==
    IF today.d < DaysInMonth(today.y, today.m) THEN Date(today.y, today.m, today.d + 1)
    ELSE IF today.m < 12 THEN Date(today.y, today.m + 1, 1)
    ELSE Date(today.y + 1, 1, 1)

DecimalDigits == <<"0","1","2","3","4","5","6","7","8","9">>

IsDigit(c) == \E i \in 1..10 : DecimalDigits[i] = c

DigitValue(c) == (CHOOSE i \in 1..10 : DecimalDigits[i] = c) - 1

\* int() of a string of digits
RECURSIVE ToInt(_, _)
ToInt(chars, acc) ==
    IF chars = <<>> THEN acc ELSE ToInt(Tail(chars), 10 * acc + DigitValue(Head(chars)))

\* re.fullmatch(r"\d{4}-\d{2}-\d{2}", arg)
MatchesDatePattern(arg) ==
    /\ Len(arg) = 10
    /\ \A i \in {1, 2, 3, 4, 6, 7, 9, 10} : IsDigit(arg[i])
    /\ arg[5] = "-"
    /\ arg[8] = "-"

\* the years, months and days dt.date accepts
IsDate(y, m, d) == y \in 1..9999 /\ m \in 1..12 /\ d \in 1..DaysInMonth(y, m)

\* parse_date_arg(arg): None, a date, or the ValueError dt.date raises
parse_date_arg(arg) ==
    IF arg = <<>> \/ ~MatchesDatePattern(arg)
    THEN [kind |-> "none", date |-> Date(0, 0, 0)]
    ELSE LET y == ToInt(SubSeq(arg, 1, 4), 0)
             m == ToInt(SubSeq(arg, 6, 7), 0)
             d == ToInt(SubSeq(arg, 9, 10), 0)
         IN  IF IsDate(y, m, d)
             THEN [kind |-> "date", date |-> Date(y, m, d)]
             ELSE [kind |-> "raise", date |-> Date(0, 0, 0)]

----------------------------------------------------------------------------
(* Scoreboard *)

ESPN_SCOREBOARD_URLS == <<"site.api.espn.com", "site.web.api.espn.com">>

Matchup(away_abbr, home_abbr) == [away_abbr |-> away_abbr, home_abbr |-> home_abbr]

SbCompetitor(abbreviation, homeAway) == [team |-> [abbreviation |-> abbreviation], homeAway |-> homeAway]

\* an event with one competition
SbEvent(competitors) == [competitions |-> << [competitors |-> competitors] >>]

\* `if home and away`: neither None nor empty
Present(abbr) == abbr # NoneStr /\ abbr # <<>>

\* the loop over the competitors: the abbreviation of the last competitor
\* whose homeAway is `side`, `found` (None at the start) if there is none
RECURSIVE SideOf(_, _, _)
SideOf(competitors, side, found) ==
    IF competitors = <<>> THEN found
    ELSE SideOf(Tail(competitors), side,
                IF Head(competitors).homeAway = side
                THEN normalize_abbr(Head(competitors).team.abbreviation)
                ELSE found)

\* the matchup of one event appended to games, if the event has one
AppendGame(games, away, home) ==
    IF Present(home) /\ Present(away) THEN Append(games, Matchup(away, home)) ELSE games

\* the loop over the events of the scoreboard
RECURSIVE ParseGames(_, _)
ParseGames(events, games) ==
    IF events = <<>> THEN games
    ELSE IF Head(events).competitions = <<>> THEN ParseGames(Tail(events), games)
    ELSE ParseGames(Tail(events),
                    AppendGame(games,
                               SideOf(Head(events).competitions[1].competitors, "away", NoneStr),
                               SideOf(Head(events).competitions[1].competitors, "home", NoneStr)))

\* the loop over ESPN_SCOREBOARD_URLS from url number u on; r is the answer
\* of the fetch layer for url u
RECURSIVE ScoreboardLoop(_, _, _)

\* an item of "events" that is a JSON string: ev.get raises AttributeError
NotAnObject == [string |-> "x"]

\* whether the loop over the events raises nothing
Processable(doc) == \A i \in 1..Len(doc.events) : "string" \notin DOMAIN doc.events[i]

\* ScoreboardFrom raising the error of the first url that fails
ScoreboardFrom_NoFallback(scripts, u, r) ==
    IF r.ok /\ Processable(r.doc)
    THEN [ok |-> TRUE, games |-> ParseGames(r.doc.events, <<>>), err |-> "-", fetches |-> u, url |-> u]
    ELSE [ok |-> FALSE, games |-> <<>>, err |-> IF r.ok THEN "AttributeError" ELSE r.err,
          fetches |-> u, url |-> 0]

\* the body of the try block for url u, and the except block
ScoreboardFrom(scripts, u, r) ==
    IF r.ok /\ Processable(r.doc)
    THEN [ok |-> TRUE, games |-> ParseGames(r.doc.events, <<>>), err |-> "-", fetches |-> u, url |-> u]
    ELSE ScoreboardLoop(scripts, u + 1, IF r.ok THEN "AttributeError" ELSE r.err)

ScoreboardLoop(scripts, u, last_error) ==
    IF u > Len(ESPN_SCOREBOARD_URLS)
    THEN [ok |-> FALSE, games |-> <<>>, err |-> last_error, fetches |-> u - 1, url |-> 0]
    ELSE ScoreboardFrom(scripts, u, get_json_with_retries(scripts[u]))

\* fetch_scoreboard_games_utc(game_date_utc): scripts[u] is the provider's
\* answers to the fetch of url u for that date
fetch_scoreboard_games_utc(game_date_utc, scripts) == ScoreboardLoop(scripts, 1, "-")

----------------------------------------------------------------------------
(* Report.  A text is the sequence of its characters.  In the texts of     *)
(* preds_cmd every piece an f-string puts in at once (a literal, an        *)
(* abbreviation, a date, a number) is one element.                         *)

\* format_prediction(winner, info)
format_prediction(winner, info) ==
    << info.away, " @ ", info.home, "  ->  winner *", winner, "*",
       "\nLast10: ", info.away, " ", info.away10[1], "-", info.away10[2], " | ",
       info.home, " ", info.home10[1], "-", info.home10[2] >>
    \o (IF info.away5 # NoRecord /\ info.home5 # NoRecord
        THEN << "\nLast5:  ", info.away, " ", info.away5[1], "-", info.away5[2], " | ",
                info.home, " ", info.home5[1], "-", info.home5[2] >>
        ELSE <<>>)
    \o (IF info.reason = "home_tiebreak" THEN << "\nTie-break: home team" >> ELSE <<>>)

\* str(e) of the exception pick_winner raised
ErrorText(r) ==
    IF r.status = "unknown_team" THEN << r.err, ": ", r.unknown >> ELSE << r.err >>

\* the line of the except branch of the loop over the games
ErrorLine(g, r) ==
    << normalize_abbr(g.away_abbr), " @ ", normalize_abbr(g.home_abbr), "  ->  (error: " >>
    \o ErrorText(r) \o << ")" >>

\* the first element of out_lines
HeaderLine(d) ==
    << "NBA predictions for *", d, " (UTC)*\nSeason start year: ", espn_season_year_for_date(d), "\n" >>

\* "\n\n".join(out_lines)
RECURSIVE Join(_)
Join(out_lines) ==
    IF out_lines = <<>> THEN <<>>
    ELSE IF Len(out_lines) = 1 THEN out_lines[1]
    ELSE out_lines[1] \o << "\n\n" >> \o Join(Tail(out_lines))

MAX == 3500

\* SendInBlocks leaving out the last, shorter block
SendInBlocks_DropTail(text, max) ==
    IF Len(text) <= max THEN << text >>
    ELSE [k \in 1..(Len(text) \div max) |-> SubSeq(text, (k - 1) * max + 1, k * max)]

\* the end of preds_cmd: the texts handed to send_text for a report `text`, in
\* order, with blocks of at most max characters
SendInBlocks(text, max) ==
    IF Len(text) <= max THEN << text >>
    ELSE [k \in 1..((Len(text) + max - 1) \div max) |->
            SubSeq(text, (k - 1) * max + 1, Min(k * max, Len(text)))]

\* the provider's answers to the schedule fetch of team_id, should one be made
ScriptFor(sscripts, team_id) == IF team_id \in DOMAIN sscripts THEN sscripts[team_id] ELSE NoScript

\* what preds_cmd leaves: the texts handed to send_text and the caches
PredsOutcome(status, d, games, out_lines, sent, dcache, ts, wcache, sb) ==
    [status |-> status, d |-> d, games |-> games, out_lines |-> out_lines, sent |-> sent,
     dcache |-> dcache, ts |-> ts, wcache |-> wcache, sbFetches |-> sb.fetches, sbUrl |-> sb.url]

\* the loop over the games, from the first of `games` on; dscript and
\* sscripts are the provider's answers during this report
RECURSIVE PredictGames(_, _, _, _, _, _, _, _, _)
\* PredictNext leaving the loop at the first exception
PredictNext_StopAtError(games, out_lines, now, d, dscript, sscripts, r) ==
    IF r.status = "ok"
    THEN PredictGames(Tail(games), Append(out_lines, format_prediction(r.winner, r.info)),
                      r.dcache, r.ts, now, r.wcache, d, dscript, sscripts)
    ELSE [out_lines |-> Append(out_lines, ErrorLine(Head(games), r)),
          dcache |-> r.dcache, ts |-> r.ts, wcache |-> r.wcache]

\* one pass of the loop: pick_winner left r for the first of `games`
PredictNext(games, out_lines, now, d, dscript, sscripts, r) ==
    PredictGames(Tail(games),
                 Append(out_lines, IF r.status = "ok" THEN format_prediction(r.winner, r.info)
                                   ELSE ErrorLine(Head(games), r)),
                 r.dcache, r.ts, now, r.wcache, d, dscript, sscripts)

PredictGames(games, out_lines, dcache, ts, now, wcache, d, dscript, sscripts) ==
    IF games = <<>>
    THEN [out_lines |-> out_lines, dcache |-> dcache, ts |-> ts, wcache |-> wcache]
    ELSE PredictNext(games, out_lines, now, d, dscript, sscripts,
            pick_winner(dcache, ts, now, wcache, Head(games).away_abbr, Head(games).home_abbr, d,
                dscript,
                ScriptFor(sscripts, IdIn(load_team_map(dcache, ts, now, dscript).map, Head(games).away_abbr)),
                ScriptFor(sscripts, IdIn(load_team_map(dcache, ts, now, dscript).map, Head(games).home_abbr))))

\* the end of preds_cmd: the report is joined and sent
PredsSend(d, games, sb, p) ==
    PredsOutcome("report", d, games, p.out_lines, SendInBlocks(Join(p.out_lines), MAX),
                 p.dcache, p.ts, p.wcache, sb)

\* preds_cmd after fetch_scoreboard_games_utc(d) left sb
PredsWithGames(dcache, ts, now, wcache, d, sb, dscript, sscripts) ==
    IF ~sb.ok
    THEN PredsOutcome("schedule_error", d, <<>>, <<>>, << << "Error fetching schedule: ", sb.err >> >>,
                      dcache, ts, wcache, sb)
    ELSE IF sb.games = <<>>
    THEN PredsOutcome("no_games", d, <<>>, <<>>, << << "No NBA games found for ", d, " (UTC)." >> >>,
                      dcache, ts, wcache, sb)
    ELSE PredsSend(d, sb.games, sb,
                   PredictGames(sb.games, << HeaderLine(d) >>, dcache, ts, now, wcache, d, dscript, sscripts))

NoScoreboard == [ok |-> FALSE, games |-> <<>>, err |-> "-", fetches |-> 0, url |-> 0]

\* preds_cmd after the date argument was read as pd
PredsWithDate(dcache, ts, now, wcache, pd, sbscripts, dscript, sscripts) ==
    IF pd.kind = "none"
    THEN PredsOutcome("usage", pd.date, <<>>, <<>>, << << "Use: /preds or /preds YYYY-MM-DD (UTC)" >> >>,
                      dcache, ts, wcache, NoScoreboard)
    ELSE IF pd.kind = "raise"
    THEN PredsOutcome("raised", pd.date, <<>>, <<>>, <<>>, dcache, ts, wcache, NoScoreboard)
    ELSE PredsWithGames(dcache, ts, now, wcache, pd.date,
                        fetch_scoreboard_games_utc(pd.date, sbscripts), dscript, sscripts)

\* preds_cmd(update, context): args is context.args, today the UTC date
preds_cmd(dcache, ts, now, wcache, args, today, sbscripts, dscript, sscripts) ==
    PredsWithDate(dcache, ts, now, wcache,
                  IF args # <<>> /\ args[1] # <<>> THEN parse_date_arg(args[1])
                  ELSE [kind |-> "date", date |-> get_tomorrow_utc(today)],
                  sbscripts, dscript, sscripts)

----------------------------------------------------------------------------
(* FPL rankings (src/bot_test.py).  The quotient of a division, such as    *)
(* points per appearance, is kept as the pair <<dividend, divisor>>; a     *)
(* number that is not a quotient has the divisor 1.  The documents of the  *)
(* provider carry no null.                                                 *)

LAST_N_GWS == 5

TOP_N == 5

POS_MAP == (1 :> "GK") @@ (2 :> "DEF") @@ (3 :> "MID") @@ (4 :> "FWD")

\* d.get(key, default)
Get(d, key, default) == IF key \in DOMAIN d THEN d[key] ELSE default

\* get_first(d, keys, default)
RECURSIVE get_first(_, _, _)
get_first(d, keys, default) ==
    IF keys = <<>> THEN default
    ELSE IF Head(keys) \in DOMAIN d THEN d[Head(keys)]
    ELSE get_first(d, Tail(keys), default)

\* hist[-last_n:]
LastRows(hist, last_n) ==
    IF last_n = 0 \/ Len(hist) <= last_n THEN hist
    ELSE SubSeq(hist, Len(hist) - last_n + 1, Len(hist))

\* sum(x.get(key, 0) for x in rows)
RECURSIVE SumGet(_, _)
SumGet(rows, key) ==
    IF rows = <<>> THEN 0 ELSE Get(Head(rows), key, 0) + SumGet(Tail(rows), key)

\* sum(get_first(x, keys, 0) for x in rows)
RECURSIVE SumFirst(_, _)
SumFirst(rows, keys) ==
    IF rows = <<>> THEN 0 ELSE get_first(Head(rows), keys, 0) + SumFirst(Tail(rows), keys)

\* sum(1 for x in rows if x.get("minutes", 0) > 0)
Appearances(rows) == Cardinality({i \in 1..Len(rows) : Get(rows[i], "minutes", 0) > 0})

\* a / b < c / d, for positive divisors
QuotientLess(q, r) == q[1] * r[2] < r[1] * q[2]

\* the order of the sort keys: tuples of numbers, compared from the left
RECURSIVE KeyLess(_, _)
KeyLess(k1, k2) ==
    IF k1 = <<>> THEN FALSE
    ELSE IF QuotientLess(Head(k1), Head(k2)) THEN TRUE
    ELSE IF QuotientLess(Head(k2), Head(k1)) THEN FALSE
    ELSE KeyLess(Tail(k1), Tail(k2))

\* InsertRow putting x in front of the rows of its own key
RECURSIVE InsertRow_BeforeTies(_, _)
InsertRow_BeforeTies(sorted, x) ==
    IF sorted = <<>> THEN << x >>
    ELSE IF ~KeyLess(x.key, Head(sorted).key) THEN << x >> \o sorted
    ELSE << Head(sorted) >> \o InsertRow_BeforeTies(Tail(sorted), x)

\* x put into a list that is sorted greatest first, behind every row whose
\* key is not less than its own
RECURSIVE InsertRow(_, _)
InsertRow(sorted, x) ==
    IF sorted = <<>> THEN << x >>
    ELSE IF KeyLess(Head(sorted).key, x.key) THEN << x >> \o sorted
    ELSE << Head(sorted) >> \o InsertRow(Tail(sorted), x)

\* rows.sort(reverse=True, key=...): rows of equal key keep their order
RECURSIVE SortRows(_, _)
SortRows(rows, acc) ==
    IF rows = <<>> THEN acc ELSE SortRows(Tail(rows), InsertRow(acc, Head(rows)))

\* rows[:top_n]
Take(rows, top_n) == SubSeq(rows, 1, Min(top_n, Len(rows)))

\* RankRows cutting the list before it is sorted
RankRows_CutFirst(rows, top_n) == SortRows(Take(rows, top_n), <<>>)

\* the sort and the cut of one list
RankRows(rows, top_n) == Take(SortRows(rows, <<>>), top_n)

\* f'{first_name} {second_name}'.strip()
PlayerName(p) == Strip(Get(p, "first_name", <<>>) \o << " " >> \o Get(p, "second_name", <<>>))

\* {t["id"]: t["name"] for t in boot["teams"]}
TeamNames(boot) ==
    [id \in {boot.teams[i].id : i \in 1..Len(boot.teams)} |->
        boot.teams[CHOOSE i \in 1..Len(boot.teams) :
                      /\ boot.teams[i].id = id
                      /\ \A j \in (i + 1)..Len(boot.teams) : boot.teams[j].id # id].name]

\* teams.get(p.get("team"), "Unknown")
TeamOf(teams, p) ==
    IF "team" \in DOMAIN p /\ p.team \in DOMAIN teams THEN teams[p.team] ELSE "Unknown"

\* pos_map.get(p.get("element_type")), "" if there is none
PosOf(p) ==
    IF "element_type" \in DOMAIN p /\ p.element_type \in DOMAIN POS_MAP
    THEN POS_MAP[p.element_type] ELSE ""

\* (ppa, pts, apps, mins, name, team), with the sort key (x[0], x[1], x[2], x[3])
WeeklyRow(pts, apps, mins, name, team) ==
    [key |-> << <<pts, apps>>, <<pts, 1>>, <<apps, 1>>, <<mins, 1>> >>,
     pts |-> pts, apps |-> apps, mins |-> mins, name |-> name, team |-> team]

\* (dc_pa, dc_sum, dc_pts, apps, name, team), with the sort key (x[0], x[1], x[2], x[3])
DefconRow(dc_sum, dc_pts, apps, name, team) ==
    [key |-> << <<dc_sum, apps>>, <<dc_sum, 1>>, <<dc_pts, 1>>, <<apps, 1>> >>,
     dc_sum |-> dc_sum, dc_pts |-> dc_pts, apps |-> apps, name |-> name, team |-> team]

\* the lists before the loop; raised is the exception that left the loop
WeeklyTables ==
    [top_by_pos |-> [pos \in {"GK", "DEF", "MID", "FWD"} |-> <<>>],
     top_defcon |-> [pos \in {"DEF", "MID", "FWD"} |-> <<>>],
     raised |-> "-"]

\* the filter, the division and the two appends, for the rows hist[-last_n:]
WeeklyAppend(acc, pos, name, team, window, pts, mins, apps, min_apps, min_total_min) ==
    IF apps < min_apps THEN acc
    ELSE IF mins < min_total_min THEN acc
    ELSE IF apps = 0 THEN [acc EXCEPT !.raised = "ZeroDivisionError"]
    ELSE [acc EXCEPT
            !.top_by_pos[pos] = Append(@, WeeklyRow(pts, apps, mins, name, team)),
            !.top_defcon = IF pos \in DOMAIN @
                           THEN [@ EXCEPT ![pos] =
                                   Append(@, DefconRow(
                                       SumFirst(window, <<"defensive_contribution", "defcon">>),
                                       SumFirst(window, <<"defensive_contribution_points", "defcon_points">>),
                                       apps, name, team))]
                           ELSE @]

\* the rows of the window are summed
WeeklyWindow(acc, pos, name, team, window, min_apps, min_total_min) ==
    WeeklyAppend(acc, pos, name, team, window, SumGet(window, "total_points"), SumGet(window, "minutes"),
                 Appearances(window), min_apps, min_total_min)

\* WeeklyPlayer giving up on the whole batch when a history cannot be fetched
WeeklyPlayer_Abort(acc, p, teams, summary, last_n, min_apps, min_total_min) ==
    IF PosOf(p) = "" THEN acc
    ELSE IF ~summary.ok THEN [acc EXCEPT !.raised = summary.err]
    ELSE IF Get(summary.doc, "history", <<>>) = <<>> THEN acc
    ELSE WeeklyWindow(acc, PosOf(p), PlayerName(p), TeamOf(teams, p),
                      LastRows(summary.doc.history, last_n), min_apps, min_total_min)

\* the body of the loop of compute_weekly_fpl for player p; summary is the
\* answer of fpl_element_summary(p["id"])
WeeklyPlayer(acc, p, teams, summary, last_n, min_apps, min_total_min) ==
    IF PosOf(p) = "" THEN acc
    ELSE IF ~summary.ok THEN acc
    ELSE IF Get(summary.doc, "history", <<>>) = <<>> THEN acc
    ELSE WeeklyWindow(acc, PosOf(p), PlayerName(p), TeamOf(teams, p),
                      LastRows(summary.doc.history, last_n), min_apps, min_total_min)

\* the loop over boot["elements"]
RECURSIVE WeeklyLoop(_, _, _, _, _, _, _)
WeeklyLoop(elements, acc, teams, summaries, last_n, min_apps, min_total_min) ==
    IF elements = <<>> \/ acc.raised # "-" THEN acc
    ELSE WeeklyLoop(Tail(elements),
                    WeeklyPlayer(acc, Head(elements), teams, summaries[Head(elements).id],
                                 last_n, min_apps, min_total_min),
                    teams, summaries, last_n, min_apps, min_total_min)

\* the two loops that sort and cut
WeeklyResult(acc, top_n) ==
    IF acc.raised # "-"
    THEN [ok |-> FALSE, err |-> acc.raised, top_by_pos |-> <<>>, top_defcon |-> <<>>]
    ELSE [ok |-> TRUE, err |-> "-",
          top_by_pos |-> [pos \in DOMAIN acc.top_by_pos |-> RankRows(acc.top_by_pos[pos], top_n)],
          top_defcon |-> [pos \in DOMAIN acc.top_defcon |-> RankRows(acc.top_defcon[pos], top_n)]]

\* compute_weekly_fpl(top_n, last_n, min_apps, min_total_min): boot is the
\* answer of fpl_bootstrap(), summaries[id] the answer of fpl_element_summary(id)
compute_weekly_fpl(boot, summaries, top_n, last_n, min_apps, min_total_min) ==
    WeeklyResult(WeeklyLoop(boot.elements, WeeklyTables, TeamNames(boot), summaries,
                            last_n, min_apps, min_total_min),
                 top_n)

\* get_last_finished_gw looking at the period in progress before the finished ones
get_last_finished_gw_CurrentFirst(bootstrap_json) ==
    LET events   == Get(bootstrap_json, "events", <<>>)
        finished == {events[i].id : i \in {j \in 1..Len(events) : Get(events[j], "finished", FALSE)}}
        currents == {i \in 1..Len(events) : Get(events[i], "is_current", FALSE)}
        current  == IF currents = {} THEN 0
                    ELSE events[CHOOSE i \in currents : \A j \in currents : i <= j].id
    IN  IF current > 1 THEN current - 1
        ELSE IF finished # {} THEN CHOOSE id \in finished : \A other \in finished : other <= id
        ELSE 1

\* get_last_finished_gw(bootstrap_json)
get_last_finished_gw(bootstrap_json) ==
    LET events   == Get(bootstrap_json, "events", <<>>)
        finished == {events[i].id : i \in {j \in 1..Len(events) : Get(events[j], "finished", FALSE)}}
        currents == {i \in 1..Len(events) : Get(events[i], "is_current", FALSE)}
        current  == IF currents = {} THEN 0
                    ELSE events[CHOOSE i \in currents : \A j \in currents : i <= j].id
    IN  IF finished # {} THEN CHOOSE id \in finished : \A other \in finished : other <= id
        ELSE IF current > 1 THEN current - 1
        ELSE 1

\* format_price(now_cost): one decimal, as <<units, tenths>>
format_price(now_cost) == << now_cost \div 10, now_cost % 10 >>

\* (pts, mins, name, team, price), with the sort key (x[0], x[1])
LastGwRow(pts, mins, name, team, price) ==
    [key |-> << <<pts, 1>>, <<mins, 1>> >>,
     pts |-> pts, mins |-> mins, name |-> name, team |-> team, price |-> price]

\* next((h for h in hist if h.get("round") == last_gw), None), <<>> for None
RECURSIVE RowOfRound(_, _)
RowOfRound(hist, last_gw) ==
    IF hist = <<>> THEN <<>>
    ELSE IF Get(Head(hist), "round", 0) = last_gw THEN Head(hist)
    ELSE RowOfRound(Tail(hist), last_gw)

\* the filter and the append, for the row of the last gameweek
LastGwAppend(buckets, pos, name, team, price, gw_row, min_minutes) ==
    IF gw_row = <<>> THEN buckets
    ELSE IF Get(gw_row, "minutes", 0) < min_minutes THEN buckets
    ELSE [buckets EXCEPT ![pos] =
            Append(@, LastGwRow(Get(gw_row, "total_points", 0), Get(gw_row, "minutes", 0),
                                name, team, price))]

\* the body of the loop of compute_top_last_gw_by_position for player p
LastGwPlayer(buckets, p, teams, summary, last_gw, min_minutes) ==
    IF PosOf(p) = "" THEN buckets
    ELSE IF ~summary.ok THEN buckets
    ELSE LastGwAppend(buckets, PosOf(p), PlayerName(p), TeamOf(teams, p),
                      format_price(Get(p, "now_cost", 0)),
                      RowOfRound(Get(summary.doc, "history", <<>>), last_gw), min_minutes)

\* the loop over boot["elements"]
RECURSIVE LastGwLoop(_, _, _, _, _, _)
LastGwLoop(elements, buckets, teams, summaries, last_gw, min_minutes) ==
    IF elements = <<>> THEN buckets
    ELSE LastGwLoop(Tail(elements),
                    LastGwPlayer(buckets, Head(elements), teams, summaries[Head(elements).id],
                                 last_gw, min_minutes),
                    teams, summaries, last_gw, min_minutes)

\* the loop that sorts and cuts
LastGwResult(last_gw, buckets, top_n) ==
    [last_gw |-> last_gw, buckets |-> [pos \in DOMAIN buckets |-> RankRows(buckets[pos], top_n)]]

\* compute_top_last_gw_by_position(top_n, min_minutes)
compute_top_last_gw_by_position(boot, summaries, top_n, min_minutes) ==
    LastGwResult(get_last_finished_gw(boot),
                 LastGwLoop(boot.elements, [pos \in {"GK", "DEF", "MID", "FWD"} |-> <<>>],
                            TeamNames(boot), summaries, get_last_finished_gw(boot), min_minutes),
                 top_n)

(* What the provider and the user may send to /preds *)

\* /preds arguments: none, a date, a word, and a day February does not have
ArgNone == <<>>

ArgDate == << <<"2","0","2","5","-","1","1","-","0","1">> >>

ArgWord == << <<"t","o","m","o","r","r","o","w">> >>

ArgNoSuchDay == << <<"2","0","2","5","-","0","2","-","3","0">> >>

PredsArgs == {ArgNone, ArgDate, ArgWord, ArgNoSuchDay}

\* the UTC date at the time of the command
Todays == {Date(2025, 10, 31)}

XYZ == <<"X","Y","Z">>

\* three games, the second with a team no teams list carries
ScoreboardThree ==
    [events |-> << SbEvent(<< SbCompetitor(GS, "home"), SbCompetitor(<<"b","o","s">>, "away") >>),
                   SbEvent(<< SbCompetitor(XYZ, "away"), SbCompetitor(BOS, "home") >>),
                   SbEvent(<< SbCompetitor(BOS, "home"), SbCompetitor(GSW, "away") >>) >>]

\* events the loop must skip before one game
ScoreboardIrregular ==
    [events |-> << [competitions |-> <<>>],
                   SbEvent(<< SbCompetitor(GS, "home") >>),
                   SbEvent(<< SbCompetitor(NoneStr, "away"), SbCompetitor(BOS, "home") >>),
                   SbEvent(<< SbCompetitor(GS, "away"), SbCompetitor(BOS, "home"), SbCompetitor(XYZ, "neutral") >>) >>]

ScoreboardEmpty == [events |-> <<>>]

\* the answers of the two scoreboard urls
ScoreboardScripts ==
    {<< FirstTry(doc), NoScript >> : doc \in {ScoreboardThree, ScoreboardIrregular, ScoreboardEmpty}}
    \cup {<< AllFail, FirstTry(ScoreboardThree) >>, << AllFail, AllFail >>}

\* a teams list with both teams, one with GSW only, or no answer
ReportTeamScripts == {FirstTry(TeamsDocFull), FirstTry(TeamsDocGSWOnly), AllFail}

\* the answer to the schedule fetch of every team during one report
ReportScheduleScripts ==
    {f \in [TeamIds -> UNION {FewScheduleScripts[tid] : tid \in TeamIds}] :
        \A tid \in TeamIds : f[tid] \in FewScheduleScripts[tid]}

\* a user sends /preds
PredsCmdFrom(argSets, todays, sbScripts, dScripts, sScripts) ==
    \E args \in argSets, today \in todays, sbscripts \in sbScripts :
    \E dscript \in dScripts, sscripts \in sScripts :
    \E r \in {preds_cmd(TEAM_MAP_CACHE, TEAM_MAP_CACHE_TS, clock, SCHEDULE_WINS_CACHE,
                        args, today, sbscripts, dscript, sscripts)} :
        /\ TEAM_MAP_CACHE' = r.dcache
        /\ TEAM_MAP_CACHE_TS' = r.ts
        /\ SCHEDULE_WINS_CACHE' = r.wcache
        /\ computed' = Remember(r.wcache)
        /\ last' = [op |-> "preds_cmd", args |-> args, status |-> r.status, d |-> r.d,
                    games |-> r.games, out_lines |-> r.out_lines, sent |-> r.sent,
                    hadMap |-> Truthy(TEAM_MAP_CACHE),
                    sbFetches |-> r.sbFetches, sbUrl |-> r.sbUrl]
        /\ UNCHANGED <<clock, tasks>>
        /\ UNCHANGED <<live_seen, chat>>

(* The bot: every call, on two teams, two cutoffs and two schedules a team *)

Tick == TickTo(AtExpiry, MaxBotLaps)

CallLoadTeamMap == LoadTeamMapFrom(FewTeamScripts)

CallFetchTeamRecentWins == FetchTeamRecentWinsFrom(Cutoffs, FewScheduleScripts)

CallRecordLastN == RecordLastNFrom(OneCutoff, PickWindowSizes, FewScheduleScripts)

CallPickWinner == PickWinnerFrom(KnownAbbrs, Cutoffs, FewTeamScripts, FewScheduleScripts)

Next ==
    \/ Tick
    \/ CallLoadTeamMap
    \/ CallFetchTeamRecentWins
    \/ CallRecordLastN
    \/ CallPickWinner

Spec == Init /\ [][Next]_vars

(* The fetch layer alone, on every course of the HTTP attempts *)

GetJsonStep ==
    /\ \E script \in AllScripts :
         \E r \in {get_json_with_retries(script)} :
            last' = [op |-> "get_json_with_retries", script |-> script,
                     ok |-> r.ok, doc |-> r.doc, err |-> r.err,
                     attempts |-> r.attempts, sleeps |-> r.sleeps]
    /\ UNCHANGED <<clock, TEAM_MAP_CACHE, TEAM_MAP_CACHE_TS, SCHEDULE_WINS_CACHE, computed, tasks>>
    /\ UNCHANGED <<live_seen, chat>>

NextFetch == GetJsonStep

SpecFetch == Init /\ [][NextFetch]_vars

(* The prediction engine alone, on every season and every teams list *)

PickWinnerStep == PickWinnerFrom(RawAbbrs, OneCutoff, TeamScripts, ScheduleScripts)

NextPick == PickWinnerStep

SpecPick == Init /\ [][NextPick]_vars

(* The team directory alone, around the expiry of the map *)

TickDir == TickTo(AroundExpiry, MaxLaps)

LoadTeamMapStep == LoadTeamMapFrom(TeamScripts)

NextDir ==
    \/ TickDir
    \/ LoadTeamMapStep

SpecDir == Init /\ [][NextDir]_vars

(* The FPL rankings alone *)

Player(id, element_type, first_name, second_name, team, now_cost) ==
    [id |-> id, element_type |-> element_type, first_name |-> first_name,
     second_name |-> second_name, team |-> team, now_cost |-> now_cost]

\* three defenders, a goalkeeper of a team the teams list does not carry, and
\* a player of a position the game does not have; gameweek 2 is the last
\* finished one
FplBoot ==
    [elements |-> << Player(1, 2, <<"A">>, <<"l">>, 1, 45), Player(2, 2, <<"B">>, <<>>, 2, 50),
                     Player(3, 2, <<>>, <<"C">>, 1, 55), Player(4, 1, <<"D">>, <<"d">>, 9, 40),
                     Player(5, 7, <<"E">>, <<"e">>, 2, 40) >>,
     teams    |-> << [id |-> 1, name |-> "Arsenal"], [id |-> 2, name |-> "Chelsea"] >>,
     events   |-> << [id |-> 1, finished |-> TRUE, is_current |-> FALSE],
                     [id |-> 2, finished |-> TRUE, is_current |-> FALSE],
                     [id |-> 3, finished |-> FALSE, is_current |-> TRUE] >>]

FplBoots == {FplBoot}

\* one snapshot of a player's history
Snapshot(round, total_points, minutes) ==
    [round |-> round, total_points |-> total_points, minutes |-> minutes]

\* a snapshot with its defensive contributions under the current names
SnapshotDc(round, total_points, minutes, dc, dc_points) ==
    [round |-> round, total_points |-> total_points, minutes |-> minutes,
     defensive_contribution |-> dc, defensive_contribution_points |-> dc_points]

\* a snapshot with its defensive contributions under the older names
SnapshotDefcon(round, total_points, minutes, dc, dc_points) ==
    [round |-> round, total_points |-> total_points, minutes |-> minutes,
     defcon |-> dc, defcon_points |-> dc_points]

\* last two snapshots: 8 points in 2 appearances
HistorySteady == << Snapshot(1, 2, 90), SnapshotDc(2, 6, 90, 10, 2), SnapshotDefcon(3, 2, 90, 4, 0) >>

\* last two snapshots: 16 points in 2 appearances
HistoryStar == << SnapshotDc(1, 9, 90, 12, 2), SnapshotDc(2, 12, 90, 3, 0), Snapshot(3, 4, 60) >>

\* last two snapshots: 1 point in 1 appearance of 5 minutes
HistoryCameo == << Snapshot(1, 5, 10), Snapshot(2, 0, 0), Snapshot(3, 1, 5) >>

\* no appearance at all
HistoryBench == << Snapshot(1, 0, 0), Snapshot(2, 0, 0), Snapshot(3, 0, 0) >>

\* one snapshot: 4 points in 1 appearance, the points per appearance of HistorySteady
HistoryOne == << SnapshotDc(3, 4, 90, 7, 0) >>

SummaryAnswers ==
    {Ok([history |-> h]) : h \in {HistorySteady, HistoryStar, HistoryCameo, HistoryBench, HistoryOne}}
    \cup {Err("HTTP 503")}

\* the answers of fpl_element_summary to the five players
FplSummaries ==
    {f \in [1..5 -> SummaryAnswers \cup {Ok([fixtures |-> <<>>])}] :
        /\ f[1] \in SummaryAnswers
        /\ f[2] \in SummaryAnswers
        /\ f[3] \in {Ok([history |-> HistorySteady]), Ok([history |-> HistoryStar]), Err("HTTP 503")}
        /\ f[4] \in {Ok([history |-> HistorySteady]), Ok([fixtures |-> <<>>]), Err("HTTP 503")}
        /\ f[5] = Ok([history |-> HistoryStar])}

TopNs == (1..MaxTopN) \cup {TOP_N}

LastNs == (1..MaxLastN) \cup {LAST_N_GWS}

\* MIN_APPS_LAST5: the default 2 and the 1 the code proposes
NamedMinApps == {1, 2}

\* MIN_APPS_LAST5 read from the environment
AnyMinApps == {0 - 1, 0, 1, 2}

\* MIN_TOTAL_MIN_LAST5: the default 0, or an hour and a half
MinTotals == {0, 90}

\* min_minutes: the 1 of the code, or a whole match
MinMinutes == {1, 90}

\* what the provider holds when a ranking is computed
InitRank ==
    /\ clock = 0
    /\ TEAM_MAP_CACHE = NoMap
    /\ TEAM_MAP_CACHE_TS = 0
    /\ SCHEDULE_WINS_CACHE = <<>>
    /\ computed = <<>>
    /\ tasks = <<>>
    /\ live_seen = NoFile
    /\ chat = <<>>
    /\ \E boot \in FplBoots, summaries \in FplSummaries :
          last = [op |-> "provider", boot |-> boot, summaries |-> summaries]

\* the weekly ranking is computed
ComputeWeeklyFplFrom(topNs, lastNs, minApps, minTotals) ==
    /\ last.op = "provider"
    /\ \E top_n \in topNs, last_n \in lastNs, min_apps \in minApps, min_total_min \in minTotals :
       \E r \in {compute_weekly_fpl(last.boot, last.summaries, top_n, last_n, min_apps, min_total_min)} :
          last' = [op |-> "compute_weekly_fpl", boot |-> last.boot, summaries |-> last.summaries,
                   top_n |-> top_n, last_n |-> last_n, min_apps |-> min_apps,
                   min_total_min |-> min_total_min,
                   ok |-> r.ok, err |-> r.err, top_by_pos |-> r.top_by_pos, top_defcon |-> r.top_defcon]
    /\ UNCHANGED <<clock, TEAM_MAP_CACHE, TEAM_MAP_CACHE_TS, SCHEDULE_WINS_CACHE, computed, tasks>>
    /\ UNCHANGED <<live_seen, chat>>

\* the ranking of the last gameweek is computed
ComputeTopLastGwFrom(topNs, minMinutes) ==
    /\ last.op = "provider"
    /\ \E top_n \in topNs, min_minutes \in minMinutes :
       \E r \in {compute_top_last_gw_by_position(last.boot, last.summaries, top_n, min_minutes)} :
          last' = [op |-> "compute_top_last_gw_by_position", boot |-> last.boot,
                   summaries |-> last.summaries, top_n |-> top_n, min_minutes |-> min_minutes,
                   last_gw |-> r.last_gw, buckets |-> r.buckets]
    /\ UNCHANGED <<clock, TEAM_MAP_CACHE, TEAM_MAP_CACHE_TS, SCHEDULE_WINS_CACHE, computed, tasks>>
    /\ UNCHANGED <<live_seen, chat>>

(* with the thresholds the code names *)

ComputeWeeklyFplStep == ComputeWeeklyFplFrom(TopNs, LastNs, NamedMinApps, MinTotals)

ComputeTopLastGwStep == ComputeTopLastGwFrom(TopNs, MinMinutes)

NextRank ==
    \/ ComputeWeeklyFplStep
    \/ ComputeTopLastGwStep

SpecRank == InitRank /\ [][NextRank]_vars

(* with any threshold the environment may set *)

ComputeWeeklyFplAnyStep == ComputeWeeklyFplFrom({TOP_N}, LastNs, AnyMinApps, MinTotals)

NextRankAny == ComputeWeeklyFplAnyStep

SpecRankAny == InitRank /\ [][NextRankAny]_vars

(* The /preds command alone, on every scoreboard *)

PredsCmdStep == PredsCmdFrom(PredsArgs, Todays, ScoreboardScripts, ReportTeamScripts, ReportScheduleScripts)

NextReport == PredsCmdStep

SpecReport == Init /\ [][NextReport]_vars

(* The split of a report text into blocks alone, on short texts with      *)
(* short blocks and on texts around one and two blocks of MAX characters   *)

ShortTexts == UNION {[1..n -> {"a", "b"}] : n \in 0..MaxTextLen}

\* a text of n characters
TextOfLen(n) == [i \in 1..n |-> <<"a", "b", "c">>[(i % 3) + 1]]

LongTexts == {TextOfLen(MAX - 1), TextOfLen(MAX), TextOfLen(MAX + 1), TextOfLen(2 * MAX), TextOfLen(2 * MAX + 1)}

InitBlocks ==
    /\ clock = 0
    /\ TEAM_MAP_CACHE = NoMap
    /\ TEAM_MAP_CACHE_TS = 0
    /\ SCHEDULE_WINS_CACHE = <<>>
    /\ computed = <<>>
    /\ tasks = <<>>
    /\ live_seen = NoFile
    /\ chat = <<>>
    /\ \E text \in ShortTexts \cup LongTexts :
       \E max \in (IF text \in ShortTexts THEN 1..MaxBlockLen ELSE {}) \cup {MAX} :
          last = [op |-> "text", text |-> text, max |-> max]

\* the report text is sent
SendInBlocksStep ==
    /\ last.op = "text"
    /\ last' = [op |-> "send_in_blocks", text |-> last.text, max |-> last.max,
                blocks |-> SendInBlocks(last.text, last.max)]
    /\ UNCHANGED <<clock, TEAM_MAP_CACHE, TEAM_MAP_CACHE_TS, SCHEDULE_WINS_CACHE, computed, tasks>>
    /\ UNCHANGED <<live_seen, chat>>

NextBlocks == SendInBlocksStep

SpecBlocks == InitBlocks /\ [][NextBlocks]_vars

(* The abbreviations a provider or a caller may hand to normalize_abbr *)

AbbrChars == {"g", "G", "S", "W", "N", "Y", " "}

RECURSIVE StringsUpTo(_, _)
StringsUpTo(chars, n) ==
    IF n = 0 THEN {<<>>}
    ELSE LET shorter == StringsUpTo(chars, n - 1)
         IN  shorter \cup {Append(s, c) : s \in shorter, c \in chars}

AbbrInputs == StringsUpTo(AbbrChars, MaxAbbrLen) \cup {NoneStr}

InitAbbr ==
    /\ clock = 0
    /\ TEAM_MAP_CACHE = NoMap
    /\ TEAM_MAP_CACHE_TS = 0
    /\ SCHEDULE_WINS_CACHE = <<>>
    /\ computed = <<>>
    /\ tasks = <<>>
    /\ live_seen = NoFile
    /\ chat = <<>>
    /\ \E abbr \in AbbrInputs : last = [op |-> "abbr", abbr |-> abbr]

\* the abbreviation is normalised, and the result once more
NormalizeAbbrStep ==
    /\ last.op = "abbr"
    /\ \E once \in {normalize_abbr(last.abbr)} :
          last' = [op |-> "normalize_abbr", abbr |-> last.abbr, once |-> once,
                   twice |-> normalize_abbr(once)]
    /\ UNCHANGED <<clock, TEAM_MAP_CACHE, TEAM_MAP_CACHE_TS, SCHEDULE_WINS_CACHE, computed, tasks>>
    /\ UNCHANGED <<live_seen, chat>>

NextAbbr == NormalizeAbbrStep

SpecAbbr == InitAbbr /\ [][NextAbbr]_vars

(* Schedules made of events of every kind the loop tells apart *)

WinsTeam == 9

WinsCutoff == Date(2025, 10, 21)

\* a game of WinsTeam at a minute of a day of October 2025
GameAt(day, minute, completed, competitors) ==
    Event(IsoDate(Date(2025, 10, day), minute), << Competition(completed, competitors) >>)

EventPool ==
    { Game(WinsTeam, 10, 19, W),
      Game(WinsTeam, 10, 20, L),
      GameAt(20, 90, TRUE, << Competitor(1, "false"), Competitor(WinsTeam, "true") >>),
      Game(WinsTeam, 10, 21, W),
      Game(WinsTeam, 10, 22, L),
      Event(IsoDate(Date(2025, 10, 19), 0), <<>>),
      GameAt(20, 0, FALSE, << Competitor(WinsTeam, "true") >>),
      Event(NoDate, << Competition(TRUE, << Competitor(WinsTeam, "true") >>) >>),
      Event(BadDate, << Competition(TRUE, << Competitor(WinsTeam, "true") >>) >>),
      GameAt(19, 30, TRUE, << Competitor(0, "true"), Competitor(1, "true") >>),
      GameAt(20, 30, TRUE, << Competitor(WinsTeam, "absent") >>) }

RECURSIVE SchedulesUpTo(_, _)
SchedulesUpTo(pool, n) ==
    IF n = 0 THEN {<<>>}
    ELSE LET shorter == SchedulesUpTo(pool, n - 1)
         IN  shorter \cup {Append(s, ev) : s \in shorter, ev \in pool}

InitWins ==
    /\ clock = 0
    /\ TEAM_MAP_CACHE = NoMap
    /\ TEAM_MAP_CACHE_TS = 0
    /\ SCHEDULE_WINS_CACHE = <<>>
    /\ computed = <<>>
    /\ tasks = <<>>
    /\ live_seen = NoFile
    /\ chat = <<>>
    /\ \E events \in SchedulesUpTo(EventPool, MaxEvents) :
          last = [op |-> "schedule", events |-> events, team_id |-> WinsTeam,
                  cutoff_date |-> WinsCutoff]

\* the outcomes of the team before the cutoff are asked for, for the first
\* time, and the provider answers with the schedule
WinsOfScheduleStep ==
    /\ last.op = "schedule"
    /\ \E key \in {CacheKey(last.team_id, espn_season_year_for_date(last.cutoff_date), last.cutoff_date)} :
       \E r \in {fetch_team_recent_wins(SCHEDULE_WINS_CACHE, last.team_id,
                                       espn_season_year_for_date(last.cutoff_date),
                                       last.cutoff_date, FirstTry([events |-> last.events]))} :
          /\ SCHEDULE_WINS_CACHE' = r.cache
          /\ computed' = Remember(r.cache)
          /\ last' = [op |-> "fetch_team_recent_wins", key |-> key, cached |-> FALSE,
                      ok |-> r.ok, flags |-> r.flags, err |-> r.err, fetches |-> r.fetches,
                      events |-> last.events, team_id |-> last.team_id,
                      cutoff_date |-> last.cutoff_date]
    /\ UNCHANGED <<clock, TEAM_MAP_CACHE, TEAM_MAP_CACHE_TS, tasks>>
    /\ UNCHANGED <<live_seen, chat>>

NextWins == WinsOfScheduleStep

SpecWins == InitWins /\ [][NextWins]_vars

(* Records over cached sequences of outcomes *)

RECURSIVE FlagsUpTo(_)
FlagsUpTo(n) ==
    IF n = 0 THEN {<<>>}
    ELSE LET shorter == FlagsUpTo(n - 1)
         IN  shorter \cup {Append(s, b) : s \in shorter, b \in BOOLEAN}

RecordSizes == (0..(MaxFlags + 1)) \cup {5, 10}

RecordKey == CacheKey(WinsTeam, espn_season_year_for_date(WinsCutoff), WinsCutoff)

InitRecord ==
    /\ clock = 0
    /\ TEAM_MAP_CACHE = NoMap
    /\ TEAM_MAP_CACHE_TS = 0
    /\ \E flags \in FlagsUpTo(MaxFlags) :
          /\ SCHEDULE_WINS_CACHE = [k \in {RecordKey} |-> flags]
          /\ computed = [k \in {RecordKey} |-> flags]
    /\ tasks = <<>>
    /\ live_seen = NoFile
    /\ chat = <<>>
    /\ \E n \in RecordSizes : last = [op |-> "sizes", n |-> n]

\* a caller asks for the record of a cached key over n games, and over 5 and
\* 10 games as pick_winner does
RecordsStep ==
    /\ last.op = "sizes"
    /\ \E r \in {record_last_n(SCHEDULE_WINS_CACHE, WinsTeam, espn_season_year_for_date(WinsCutoff), WinsCutoff, last.n, NoScript)},
          r5 \in {record_last_n(SCHEDULE_WINS_CACHE, WinsTeam, espn_season_year_for_date(WinsCutoff), WinsCutoff, 5, NoScript)},
          r10 \in {record_last_n(SCHEDULE_WINS_CACHE, WinsTeam, espn_season_year_for_date(WinsCutoff), WinsCutoff, 10, NoScript)} :
          /\ SCHEDULE_WINS_CACHE' = r10.cache
          /\ computed' = Remember(r10.cache)
          /\ last' = [op |-> "record_last_n", key |-> RecordKey, n |-> last.n, cached |-> TRUE,
                      ok |-> r.ok, w |-> r.w, l |-> r.l, err |-> r.err, fetches |-> r.fetches,
                      w5 |-> r5.w, w10 |-> r10.w]
    /\ UNCHANGED <<clock, TEAM_MAP_CACHE, TEAM_MAP_CACHE_TS, tasks>>
    /\ UNCHANGED <<live_seen, chat>>

NextRecord == RecordsStep

SpecRecord == InitRecord /\ [][NextRecord]_vars

(* The periods a bootstrap may list *)

\* the forms of period id: "finished" and "is_current" true, false or absent
PeriodForms(id) ==
    {[id |-> id], [id |-> id, finished |-> TRUE], [id |-> id, finished |-> FALSE],
     [id |-> id, is_current |-> TRUE], [id |-> id, is_current |-> FALSE],
     [id |-> id, finished |-> TRUE, is_current |-> TRUE],
     [id |-> id, finished |-> TRUE, is_current |-> FALSE],
     [id |-> id, finished |-> FALSE, is_current |-> TRUE],
     [id |-> id, finished |-> FALSE, is_current |-> FALSE]}

\* periods 1..n in order, each in one of its forms
RECURSIVE PeriodLists(_)
PeriodLists(n) ==
    IF n = 0 THEN {<<>>}
    ELSE {Append(s, e) : s \in PeriodLists(n - 1), e \in PeriodForms(n)}

Reversed(s) == [i \in 1..Len(s) |-> s[Len(s) + 1 - i]]

\* at most one period is in progress
OneCurrent(events) ==
    Cardinality({i \in 1..Len(events) : Get(events[i], "is_current", FALSE)}) <= 1

PeriodBoots ==
    {[teams |-> <<>>]} \cup
    {[events |-> events] :
        events \in {s \in UNION {PeriodLists(n) \cup {Reversed(t) : t \in PeriodLists(n)} : n \in 0..MaxPeriods} :
                       OneCurrent(s)}}

InitPeriods ==
    /\ clock = 0
    /\ TEAM_MAP_CACHE = NoMap
    /\ TEAM_MAP_CACHE_TS = 0
    /\ SCHEDULE_WINS_CACHE = <<>>
    /\ computed = <<>>
    /\ tasks = <<>>
    /\ live_seen = NoFile
    /\ chat = <<>>
    /\ \E boot \in PeriodBoots : last = [op |-> "bootstrap", boot |-> boot]

\* the last finished period of the bootstrap is looked up
LastFinishedGwStep ==
    /\ last.op = "bootstrap"
    /\ last' = [op |-> "get_last_finished_gw", boot |-> last.boot,
                gw |-> get_last_finished_gw(last.boot)]
    /\ UNCHANGED <<clock, TEAM_MAP_CACHE, TEAM_MAP_CACHE_TS, SCHEDULE_WINS_CACHE, computed, tasks>>
    /\ UNCHANGED <<live_seen, chat>>

NextPeriods == LastFinishedGwStep

SpecPeriods == InitPeriods /\ [][NextPeriods]_vars

(* Outcome histories asked for again and again *)

\* a caller asks for a team's outcomes; the provider answers with any of its
\* seasons, an empty one among them, or not at all
HistoryStep == FetchTeamRecentWinsFrom(Cutoffs, ScheduleScripts)

NextHistory == HistoryStep

SpecHistory == Init /\ [][NextHistory]_vars

(* What the two scoreboard urls may answer *)

\* a game, then an item that is no object
ScoreboardMalformed ==
    [events |-> << SbEvent(<< SbCompetitor(GS, "home"), SbCompetitor(BOS, "away") >>), NotAnObject >>]

\* every attempt fails with error e
FailWith(e) == [k \in 1..MAX_RETRIES |-> Err(e)]

UrlScripts ==
    {FirstTry(doc) : doc \in {ScoreboardThree, ScoreboardIrregular, ScoreboardEmpty, ScoreboardMalformed}}
    \cup {SecondTry(ScoreboardThree), SecondTry(ScoreboardIrregular), FailWith("HTTP 500"), FailWith("timeout")}

InitBoard ==
    /\ clock = 0
    /\ TEAM_MAP_CACHE = NoMap
    /\ TEAM_MAP_CACHE_TS = 0
    /\ SCHEDULE_WINS_CACHE = <<>>
    /\ computed = <<>>
    /\ tasks = <<>>
    /\ live_seen = NoFile
    /\ chat = <<>>
    /\ \E first \in UrlScripts, second \in UrlScripts :
          last = [op |-> "scoreboards", scripts |-> << first, second >>]

\* the matchups of a day are asked for
FetchScoreboardStep ==
    /\ last.op = "scoreboards"
    /\ \E r \in {fetch_scoreboard_games_utc(Date(2025, 11, 1), last.scripts)} :
          last' = [op |-> "fetch_scoreboard_games_utc", scripts |-> last.scripts,
                   ok |-> r.ok, games |-> r.games, err |-> r.err,
                   fetches |-> r.fetches, url |-> r.url]
    /\ UNCHANGED <<clock, TEAM_MAP_CACHE, TEAM_MAP_CACHE_TS, SCHEDULE_WINS_CACHE, computed, tasks>>
    /\ UNCHANGED <<live_seen, chat>>

NextBoard == FetchScoreboardStep

SpecBoard == InitBoard /\ [][NextBoard]_vars

(* The live-event poll on its own: bot_test.py, post_live_events *)

\* the job queue stops after MaxPolls runs of post_live_events
MaxPolls == 2

\* the fixtures the provider can report as live
LiveFixtures == {1, 2}

Opener == GoalEvent("Goal", 10, "a", NoName, "Normal Goal")

Penalty == GoalEvent("Goal", 20, "b", Name("a"), "Penalty")

Booking == GoalEvent("Card", 30, "a", NoName, "Yellow Card")

\* apifootball_live_fixtures raises, or answers with the live fixtures
LiveDown == [ok |-> FALSE, fixtures |-> <<>>]

LiveAnswers ==
    {LiveDown} \cup
    {[ok |-> TRUE, fixtures |-> f] : f \in {<<>>, <<1>>, <<2>>, <<1, 2>>, <<2, 1>>}}

\* apifootball_fixture_events raises, or answers with the fixture's events
\* so far: a provider repeats at every poll the events it already reported
EventsDown == [ok |-> FALSE, events |-> <<>>]

EventLists ==
    {<<>>, <<Opener>>, <<Opener, Penalty>>, <<Booking, Penalty>>,
     <<Opener, Opener>>, <<Penalty, Booking, Opener>>}

EventsAnswers ==
    [LiveFixtures -> {EventsDown} \cup {[ok |-> TRUE, events |-> e] : e \in EventLists}]

\* the send_message call of a poll that raises; 0: none does
RaisingSend == {0, 1, 2}

\* main has registered the job (run_repeating); the configuration the
\* process was started with decides whether a poll does anything
InitLive ==
    /\ clock = 0
    /\ TEAM_MAP_CACHE = NoMap
    /\ TEAM_MAP_CACHE_TS = 0
    /\ SCHEDULE_WINS_CACHE = <<>>
    /\ computed = <<>>
    /\ tasks = <<>>
    /\ live_seen = NoFile
    /\ chat = <<>>
    /\ \E configured \in BOOLEAN :
          last = [op |-> "run_repeating", polls |-> 0, configured |-> configured]

\* one run of post_live_events, from load_set to save_set: the file is
\* written only if the run reaches its last line
PostLiveEventsStep ==
    /\ last.op \in {"run_repeating", "post_live_events"}
    /\ last.polls < MaxPolls
    /\ \E live \in LiveAnswers, answers \in EventsAnswers, fails \in RaisingSend :
       \E r \in {post_live_events(last.configured, live_seen, live, answers, fails)} :
          /\ chat' = chat \o r.sent
          /\ IF r.saved
             THEN \E f \in save_set(r.seen, KEEP_LAST) : live_seen' = f
             ELSE UNCHANGED live_seen
          /\ last' = [op |-> "post_live_events", polls |-> last.polls + 1,
                      configured |-> last.configured, before |-> load_set(live_seen),
                      sent |-> r.sent, raised |-> r.raised, saved |-> r.saved]
    /\ UNCHANGED <<clock, TEAM_MAP_CACHE, TEAM_MAP_CACHE_TS, SCHEDULE_WINS_CACHE, computed, tasks>>

NextLive == PostLiveEventsStep

SpecLive == InitLive /\ [][NextLive]_vars

(* The season of a calendar date *)

SeasonYears == 2024..2026

SeasonDays == {1, 19, 30}

SeasonDates ==
    {dt \in {Date(y, m, d) : y \in SeasonYears, m \in 1..12, d \in SeasonDays} :
        dt.d <= DaysInMonth(dt.y, dt.m)}

InitSeason ==
    /\ clock = 0
    /\ TEAM_MAP_CACHE = NoMap
    /\ TEAM_MAP_CACHE_TS = 0
    /\ SCHEDULE_WINS_CACHE = <<>>
    /\ computed = <<>>
    /\ tasks = <<>>
    /\ live_seen = NoFile
    /\ chat = <<>>
    /\ \E d \in SeasonDates : last = [op |-> "date", d |-> d]

\* the season of the date is asked for
SeasonStep ==
    /\ last.op = "date"
    /\ last' = [op |-> "espn_season_year_for_date", d |-> last.d,
                season |-> espn_season_year_for_date(last.d)]
    /\ UNCHANGED <<clock, TEAM_MAP_CACHE, TEAM_MAP_CACHE_TS, SCHEDULE_WINS_CACHE, computed, tasks>>
    /\ UNCHANGED <<live_seen, chat>>

NextSeason == SeasonStep

SpecSeason == InitSeason /\ [][NextSeason]_vars

(* load_team_map, step by step, for callers whose steps may be interleaved *)
(* in any way: the steps are the reads and writes of the two globals.      *)

Callers == {1, 2}

\* pc: "idle", "fetch" (line 116), "build" (lines 117-128), "stamp" (line
\* 134), "returned", "raised"; now, todo (the items of teams_list still to
\* loop over) and m are the locals, ret is the mapping returned
Caller(pc, now, todo, m, ret) == [pc |-> pc, now |-> now, todo |-> todo, m |-> m, ret |-> ret]

\* the same teams under other ids
TeamsDocRenumbered == TeamsDoc(<< TeamItem(3, BOS), TeamItem(10, GS) >>)

StepTeamScripts == {FirstTry(TeamsDocFull), FirstTry(TeamsDocRenumbered), FirstTry(TeamsDocNoUsableTeam), AllFail}

\* lines 117-119
TeamsListOf(data) ==
    IF data.sports = <<>> THEN <<>>
    ELSE IF data.sports[1].leagues = <<>> THEN <<>>
    ELSE data.sports[1].leagues[1].teams

InitSteps ==
    /\ clock = 0
    /\ TEAM_MAP_CACHE = NoMap
    /\ TEAM_MAP_CACHE_TS = 0
    /\ SCHEDULE_WINS_CACHE = <<>>
    /\ computed = <<>>
    /\ tasks = [w \in Callers |-> Caller("idle", 0, <<>>, <<>>, <<>>)]
    /\ live_seen = NoFile
    /\ chat = <<>>
    /\ last = NoCall

\* lines 111-114: the clock and the two globals are read
Enter(w) ==
    /\ tasks[w].pc = "idle"
    /\ tasks' = [tasks EXCEPT ![w] =
                   IF Truthy(TEAM_MAP_CACHE) /\ (clock - TEAM_MAP_CACHE_TS) < TEAM_MAP_TTL_SECONDS
                   THEN Caller("returned", clock, <<>>, <<>>, TEAM_MAP_CACHE.map)
                   ELSE Caller("fetch", clock, <<>>, <<>>, <<>>)]
    /\ UNCHANGED <<clock, TEAM_MAP_CACHE, TEAM_MAP_CACHE_TS, SCHEDULE_WINS_CACHE, computed, last>>
    /\ UNCHANGED <<live_seen, chat>>

\* lines 116-121: the fetch layer answers or raises
Receive(w) ==
    /\ tasks[w].pc = "fetch"
    /\ \E script \in StepTeamScripts :
       \E r \in {get_json_with_retries(script)} :
          tasks' = [tasks EXCEPT ![w] =
                      IF r.ok THEN Caller("build", tasks[w].now, TeamsListOf(r.doc), <<>>, <<>>)
                      ELSE Caller("raised", tasks[w].now, <<>>, <<>>, <<>>)]
    /\ UNCHANGED <<clock, TEAM_MAP_CACHE, TEAM_MAP_CACHE_TS, SCHEDULE_WINS_CACHE, computed, last>>
    /\ UNCHANGED <<live_seen, chat>>

\* BuildItem filling the global in place
BuildItem_InPlace(w) ==
    /\ tasks[w].pc = "build"
    /\ tasks[w].todo # <<>>
    /\ tasks' = [tasks EXCEPT ![w].todo = Tail(@),
                              ![w].m = BuildTeamMap(<< Head(tasks[w].todo) >>, @)]
    /\ TEAM_MAP_CACHE' = SomeMap(BuildTeamMap(<< Head(tasks[w].todo) >>, tasks[w].m))
    /\ UNCHANGED <<clock, TEAM_MAP_CACHE_TS, SCHEDULE_WINS_CACHE, computed, last>>
    /\ UNCHANGED <<live_seen, chat>>

\* lines 122-128: one pass of the loop over teams_list, on the local m
BuildItem(w) ==
    /\ tasks[w].pc = "build"
    /\ tasks[w].todo # <<>>
    /\ tasks' = [tasks EXCEPT ![w].todo = Tail(@),
                              ![w].m = BuildTeamMap(<< Head(tasks[w].todo) >>, @)]
    /\ UNCHANGED <<clock, TEAM_MAP_CACHE, TEAM_MAP_CACHE_TS, SCHEDULE_WINS_CACHE, computed, last>>
    /\ UNCHANGED <<live_seen, chat>>

\* lines 130-133: the loop is over; an empty m raises, any other is assigned
\* to the global
Install(w) ==
    /\ tasks[w].pc = "build"
    /\ tasks[w].todo = <<>>
    /\ IF DOMAIN tasks[w].m = {}
       THEN /\ tasks' = [tasks EXCEPT ![w].pc = "raised"]
            /\ UNCHANGED TEAM_MAP_CACHE
       ELSE /\ tasks' = [tasks EXCEPT ![w].pc = "stamp"]
            /\ TEAM_MAP_CACHE' = SomeMap(tasks[w].m)
    /\ UNCHANGED <<clock, TEAM_MAP_CACHE_TS, SCHEDULE_WINS_CACHE, computed, last>>
    /\ UNCHANGED <<live_seen, chat>>

\* lines 134-135
Stamp(w) ==
    /\ tasks[w].pc = "stamp"
    /\ TEAM_MAP_CACHE_TS' = tasks[w].now
    /\ tasks' = [tasks EXCEPT ![w].pc = "returned", ![w].ret = tasks[w].m]
    /\ UNCHANGED <<clock, TEAM_MAP_CACHE, SCHEDULE_WINS_CACHE, computed, last>>
    /\ UNCHANGED <<live_seen, chat>>

\* the caller has its answer
Leave(w) ==
    /\ tasks[w].pc \in {"returned", "raised"}
    /\ tasks' = [tasks EXCEPT ![w] = Caller("idle", 0, <<>>, <<>>, <<>>)]
    /\ last' = [op |-> "load_team_map steps", caller |-> w, ok |-> tasks[w].pc = "returned",
                map |-> tasks[w].ret]
    /\ UNCHANGED <<clock, TEAM_MAP_CACHE, TEAM_MAP_CACHE_TS, SCHEDULE_WINS_CACHE, computed>>
    /\ UNCHANGED <<live_seen, chat>>

EnterStep == \E w \in Callers : Enter(w)

ReceiveStep == \E w \in Callers : Receive(w)

BuildItemStep == \E w \in Callers : BuildItem(w)

InstallStep == \E w \in Callers : Install(w)

StampStep == \E w \in Callers : Stamp(w)

LeaveStep == \E w \in Callers : Leave(w)

TickSteps == TickTo(AtExpiry, MaxLaps)

NextSteps ==
    \/ EnterStep
    \/ ReceiveStep
    \/ BuildItemStep
    \/ InstallStep
    \/ StampStep
    \/ LeaveStep
    \/ TickSteps

SpecSteps == InitSteps /\ [][NextSteps]_vars

(* The event loop, step by step.  app.run_polling runs every handler on    *)
(* the one thread of the event loop.  preds_cmd calls the fetch layer as a *)
(* plain function, so from its dispatch to its return the handler keeps    *)
(* the thread, also inside time.sleep.  A request is followed through the  *)
(* first fetch-layer call of its handler; the rest of the handler is one   *)
(* step.                                                                   *)

Requests == {1, 2}

\* pc: "none" (not sent yet), "queued" (update received, handler not
\* started), "attempt" (in session.get, attempt number `attempt`), "sleep"
\* (in time.sleep since `failed_at`, for `delay`), "returned" / "raised"
\* (get_json_with_retries is over), "done" (the handler has returned)
Task(pc, attempt, failed_at, delay) == [pc |-> pc, attempt |-> attempt, failed_at |-> failed_at, delay |-> delay]

InitLoop ==
    /\ clock = 0
    /\ TEAM_MAP_CACHE = NoMap
    /\ TEAM_MAP_CACHE_TS = 0
    /\ SCHEDULE_WINS_CACHE = <<>>
    /\ computed = <<>>
    /\ tasks = [q \in Requests |-> Task("none", 0, 0, 0)]
    /\ live_seen = NoFile
    /\ chat = <<>>
    /\ last = NoCall

\* no handler is between its dispatch and its return
ThreadFree == \A q \in Requests : tasks[q].pc \in {"none", "queued", "done"}

\* a user sends /preds
Issue(q) ==
    /\ tasks[q].pc = "none"
    /\ tasks' = [tasks EXCEPT ![q].pc = "queued"]
    /\ UNCHANGED <<clock, TEAM_MAP_CACHE, TEAM_MAP_CACHE_TS, SCHEDULE_WINS_CACHE, computed, last>>
    /\ UNCHANGED <<live_seen, chat>>

\* the event loop starts the handler of a received update: the handler runs
\* up to session.get of attempt 1
Dispatch(q) ==
    /\ tasks[q].pc = "queued"
    /\ ThreadFree
    /\ tasks' = [tasks EXCEPT ![q] = Task("attempt", 1, 0, 0)]
    /\ UNCHANGED <<clock, TEAM_MAP_CACHE, TEAM_MAP_CACHE_TS, SCHEDULE_WINS_CACHE, computed, last>>
    /\ UNCHANGED <<live_seen, chat>>

\* session.get answers: the document is returned, or the exception is caught
\* and time.sleep is entered
Attempt(q) ==
    /\ tasks[q].pc = "attempt"
    /\ \E ok \in BOOLEAN :
          tasks' = [tasks EXCEPT ![q] =
                      IF ok THEN Task("returned", tasks[q].attempt, 0, 0)
                      ELSE Task("sleep", tasks[q].attempt, clock, BackoffDelay(tasks[q].attempt))]
    /\ UNCHANGED <<clock, TEAM_MAP_CACHE, TEAM_MAP_CACHE_TS, SCHEDULE_WINS_CACHE, computed, last>>
    /\ UNCHANGED <<live_seen, chat>>

\* time.sleep returns: the loop goes to the next attempt, or is over and
\* last_err is raised
Wake(q) ==
    /\ tasks[q].pc = "sleep"
    /\ clock >= tasks[q].failed_at + tasks[q].delay
    /\ tasks' = [tasks EXCEPT ![q] =
                   IF tasks[q].attempt < MAX_RETRIES
                   THEN Task("attempt", tasks[q].attempt + 1, 0, 0)
                   ELSE Task("raised", tasks[q].attempt, 0, 0)]
    /\ UNCHANGED <<clock, TEAM_MAP_CACHE, TEAM_MAP_CACHE_TS, SCHEDULE_WINS_CACHE, computed, last>>
    /\ UNCHANGED <<live_seen, chat>>

\* the rest of the handler: it sends its message and returns
Finish(q) ==
    /\ tasks[q].pc \in {"returned", "raised"}
    /\ tasks' = [tasks EXCEPT ![q].pc = "done"]
    /\ last' = [op |-> "handler", request |-> q, raised |-> tasks[q].pc = "raised",
                attempts |-> tasks[q].attempt]
    /\ UNCHANGED <<clock, TEAM_MAP_CACHE, TEAM_MAP_CACHE_TS, SCHEDULE_WINS_CACHE, computed>>
    /\ UNCHANGED <<live_seen, chat>>

\* a time unit passes while a handler sleeps
TickLoop ==
    /\ \E q \in Requests :
          /\ tasks[q].pc = "sleep"
          /\ clock < tasks[q].failed_at + tasks[q].delay + MaxOversleep
    /\ clock' = clock + 1
    /\ UNCHANGED <<TEAM_MAP_CACHE, TEAM_MAP_CACHE_TS, SCHEDULE_WINS_CACHE, computed, tasks, last>>
    /\ UNCHANGED <<live_seen, chat>>

IssueStep == \E q \in Requests : Issue(q)

DispatchStep == \E q \in Requests : Dispatch(q)

AttemptStep == \E q \in Requests : Attempt(q)

WakeStep == \E q \in Requests : Wake(q)

FinishStep == \E q \in Requests : Finish(q)

NextLoop ==
    \/ IssueStep
    \/ DispatchStep
    \/ AttemptStep
    \/ WakeStep
    \/ FinishStep
    \/ TickLoop

SpecLoop == InitLoop /\ [][NextLoop]_vars

----------------------------------------------------------------------------
(* Properties of the prediction engine (SpecPick) *)

\* the last call was pick_winner and it returned a winner
PickReturned == last.op = "pick_winner" /\ last.status = "ok"

\* the cached history of the team the last pick_winner call resolved abbr to
HistoryOf(abbr) ==
    SCHEDULE_WINS_CACHE[CacheKey(TEAM_MAP_CACHE.map[normalize_abbr(abbr)].id,
                                 espn_season_year_for_date(last.cutoff_date),
                                 last.cutoff_date)]

\* wins among the first n (most recent) outcomes of history h
WinsIn(h, n) == Cardinality({i \in 1..Len(h) : i <= n /\ h[i]})

\* games among the first n outcomes of history h
GamesIn(h, n) == IF Len(h) < n THEN Len(h) ELSE n

AwayWins(n) == WinsIn(HistoryOf(last.away_abbr), n)

HomeWins(n) == WinsIn(HistoryOf(last.home_abbr), n)

\* C1: when the two teams' win counts over their last 10 outcomes before the
\* cutoff differ, pick_winner returns the team with more last-10 wins and
\* reason "last10", whatever the last-5 records and whichever side is home.
C1_Last10Decides ==
    (PickReturned /\ AwayWins(10) # HomeWins(10)) =>
        /\ last.info.reason = "last10"
        /\ last.winner = IF AwayWins(10) > HomeWins(10)
                         THEN normalize_abbr(last.away_abbr)
                         ELSE normalize_abbr(last.home_abbr)

\* the away team won on last-10 wins although its last-5 record is the worse
C1_Witness ==
    /\ PickReturned
    /\ AwayWins(10) > HomeWins(10)
    /\ AwayWins(5) < HomeWins(5)
    /\ last.info.reason = "last10"
    /\ last.winner = normalize_abbr(last.away_abbr)
    /\ last.winner # normalize_abbr(last.home_abbr)

\* C2: when the last-10 win counts are equal and the last-5 win counts
\* differ, pick_winner returns the team with more last-5 wins and reason
\* "last5".
C2_Last5Decides ==
    (PickReturned /\ AwayWins(10) = HomeWins(10) /\ AwayWins(5) # HomeWins(5)) =>
        /\ last.info.reason = "last5"
        /\ last.winner = IF AwayWins(5) > HomeWins(5)
                         THEN normalize_abbr(last.away_abbr)
                         ELSE normalize_abbr(last.home_abbr)

\* the away team won on last-5 wins after a last-10 tie
C2_Witness ==
    /\ PickReturned
    /\ AwayWins(10) = HomeWins(10)
    /\ AwayWins(5) > HomeWins(5)
    /\ last.info.reason = "last5"
    /\ last.winner = normalize_abbr(last.away_abbr)

\* C3: when the win counts are equal at both windows (two empty histories
\* included) pick_winner returns the home team and reason "home_tiebreak",
\* never the away team.
C3_HomeTiebreak ==
    (PickReturned /\ AwayWins(10) = HomeWins(10) /\ AwayWins(5) = HomeWins(5)) =>
        /\ last.info.reason = "home_tiebreak"
        /\ last.winner = normalize_abbr(last.home_abbr)
        /\ (normalize_abbr(last.away_abbr) # normalize_abbr(last.home_abbr)
               => last.winner # normalize_abbr(last.away_abbr))

\* two different teams with equal, non-empty records: the home team is returned
C3_Witness ==
    /\ PickReturned
    /\ normalize_abbr(last.away_abbr) # normalize_abbr(last.home_abbr)
    /\ AwayWins(10) = HomeWins(10)
    /\ AwayWins(5) = HomeWins(5)
    /\ AwayWins(5) > 0
    /\ last.info.reason = "home_tiebreak"
    /\ last.winner = normalize_abbr(last.home_abbr)

\* C4: the breakdown pick_winner returns always carries both last-10
\* (wins, losses) records; it carries the two last-5 records exactly when
\* reason is "last5" or "home_tiebreak", and none of them when it is "last10".
C4_BreakdownRecords ==
    PickReturned =>
        /\ last.info.away10 = <<AwayWins(10), GamesIn(HistoryOf(last.away_abbr), 10) - AwayWins(10)>>
        /\ last.info.home10 = <<HomeWins(10), GamesIn(HistoryOf(last.home_abbr), 10) - HomeWins(10)>>
        /\ last.info.reason \in {"last10", "last5", "home_tiebreak"}
        /\ (last.info.reason \in {"last5", "home_tiebreak"}) <=>
              (last.info.away5 # NoRecord /\ last.info.home5 # NoRecord)
        /\ (last.info.reason = "last10") <=>
              (last.info.away5 = NoRecord /\ last.info.home5 = NoRecord)
        /\ (last.info.away5 # NoRecord) =>
              last.info.away5 = <<AwayWins(5), GamesIn(HistoryOf(last.away_abbr), 5) - AwayWins(5)>>
        /\ (last.info.home5 # NoRecord) =>
              last.info.home5 = <<HomeWins(5), GamesIn(HistoryOf(last.home_abbr), 5) - HomeWins(5)>>

\* a breakdown decided on last-10 wins, without last-5 records, for two teams
\* that have games
C4_Witness ==
    /\ PickReturned
    /\ last.info.reason = "last10"
    /\ last.info.away5 = NoRecord
    /\ last.info.home5 = NoRecord
    /\ last.info.away10[1] + last.info.away10[2] = 10
    /\ last.info.home10[1] + last.info.home10[2] = 10

\* C5: pick_winner fails with the unknown-team error, and returns no winner,
\* whenever the normalized away or home abbreviation is not a key of the team
\* directory load_team_map gave it.
C5_UnknownTeam ==
    (/\ last.op = "pick_winner"
     /\ last.dirOk
     /\ \/ normalize_abbr(last.away_abbr) \notin DOMAIN TEAM_MAP_CACHE.map
        \/ normalize_abbr(last.home_abbr) \notin DOMAIN TEAM_MAP_CACHE.map) =>
        /\ last.status = "unknown_team"
        /\ last.err = "Unknown team abbreviation"
        /\ last.unknown \in {normalize_abbr(last.away_abbr), normalize_abbr(last.home_abbr)}
        /\ last.unknown \notin DOMAIN TEAM_MAP_CACHE.map
        /\ last.winner = <<>>

\* the away team resolves, the home team does not
C5_Witness ==
    /\ last.op = "pick_winner"
    /\ last.dirOk
    /\ normalize_abbr(last.away_abbr) \in DOMAIN TEAM_MAP_CACHE.map
    /\ normalize_abbr(last.home_abbr) \notin DOMAIN TEAM_MAP_CACHE.map
    /\ last.status = "unknown_team"
    /\ last.unknown = normalize_abbr(last.home_abbr)

\* C27: when pick_winner fails because the away or the home abbreviation is
\* unknown, it has made no schedule fetch for either team and has left the
\* schedule wins cache as it was, also when the other team is known.
C27_UnknownBeforeHistory ==
    [][(last'.op = "pick_winner" /\ last'.status = "unknown_team") =>
          /\ last'.schedFetches = 0
          /\ SCHEDULE_WINS_CACHE' = SCHEDULE_WINS_CACHE]_vars

\* the away team is known and not yet in the schedule wins cache, which holds
\* the other team; the home team is unknown
C27_Witness ==
    /\ last.op = "pick_winner"
    /\ last.status = "unknown_team"
    /\ last.unknown = normalize_abbr(last.home_abbr)
    /\ normalize_abbr(last.away_abbr) = GSW
    /\ last.schedFetches = 0
    /\ SCHEDULE_WINS_CACHE # <<>>
    /\ \A k \in DOMAIN SCHEDULE_WINS_CACHE : k[1] # TEAM_MAP_CACHE.map[GSW].id

----------------------------------------------------------------------------
(* Properties of the schedule wins cache (Spec) *)

\* C6: a fetch_team_recent_wins call whose key is already in the cache makes
\* no fetch-layer call and returns the sequence the first call computed; a
\* call whose key is not in the cache makes exactly one fetch-layer call.
C6_FetchCounting ==
    /\ (last.op \in {"fetch_team_recent_wins", "record_last_n"} /\ last.cached) =>
          (last.fetches = 0 /\ last.ok)
    /\ (last.op \in {"fetch_team_recent_wins", "record_last_n"} /\ ~last.cached) =>
          last.fetches = 1
    /\ (last.op = "fetch_team_recent_wins" /\ last.ok) =>
          (last.key \in DOMAIN computed /\ last.flags = computed[last.key])

\* a repeated call answered from a cache that holds several keys
C6_Witness ==
    /\ last.op = "fetch_team_recent_wins"
    /\ last.cached
    /\ last.fetches = 0
    /\ last.flags # <<>>
    /\ Cardinality(DOMAIN SCHEDULE_WINS_CACHE) >= 2

\* C7: once the cache holds a sequence for a key it holds the same sequence
\* for that key in every later state: no call removes or changes an entry.
C7_EntriesImmutable ==
    [][\A k \in DOMAIN SCHEDULE_WINS_CACHE :
          /\ k \in DOMAIN SCHEDULE_WINS_CACHE'
          /\ SCHEDULE_WINS_CACHE'[k] = SCHEDULE_WINS_CACHE[k]]_vars

\* the team map was reloaded after its expiry while the cache held the
\* entries of both cutoffs
C7_Witness ==
    /\ last.op = "load_team_map"
    /\ last.hadMap
    /\ last.fetches = 1
    /\ Cardinality(DOMAIN SCHEDULE_WINS_CACHE) >= 3
    /\ \A k \in DOMAIN SCHEDULE_WINS_CACHE : SCHEDULE_WINS_CACHE[k] = computed[k]

----------------------------------------------------------------------------
(* Properties of the team directory (SpecDir) *)

\* the last call was load_team_map, made with a map in the cache
LookupWithMap == last.op = "load_team_map" /\ last.hadMap

\* C8 as claimed: with a map loaded, a lookup made when the age of the map
\* has not exceeded the TTL makes no reload, and one made after the age
\* exceeds the TTL makes exactly one, which resets the timestamp.
C8_Original ==
    LookupWithMap =>
        /\ (last.age <= TEAM_MAP_TTL_SECONDS) => last.fetches = 0
        /\ (last.age > TEAM_MAP_TTL_SECONDS) =>
              (last.fetches = 1 /\ (last.ok => TEAM_MAP_CACHE_TS = last.now))

\* C8: with a map loaded, a lookup made when the age of the map is below the
\* TTL makes no reload and leaves the timestamp; a lookup made when the age
\* has reached the TTL makes exactly one teams fetch, of at most MAX_RETRIES
\* attempts, and when it succeeds the timestamp becomes the time of the lookup.
C8_TTLReload ==
    LookupWithMap =>
        /\ (last.age < TEAM_MAP_TTL_SECONDS) =>
              /\ last.fetches = 0
              /\ last.attempts = 0
              /\ last.ok
              /\ last.map = TEAM_MAP_CACHE.map
              /\ TEAM_MAP_CACHE_TS = last.now - last.age
        /\ (last.age >= TEAM_MAP_TTL_SECONDS) =>
              /\ last.fetches = 1
              /\ last.attempts \in 1..MAX_RETRIES
              /\ last.ok => (TEAM_MAP_CACHE_TS = last.now /\ last.map = TEAM_MAP_CACHE.map)
              /\ ~last.ok => TEAM_MAP_CACHE_TS = last.now - last.age

\* a lookup made exactly TTL seconds after the refresh reloaded the map
C8_Witness ==
    /\ LookupWithMap
    /\ last.age = TEAM_MAP_TTL_SECONDS
    /\ last.fetches = 1
    /\ last.ok
    /\ TEAM_MAP_CACHE_TS = last.now
    /\ last.now > 0

\* whether the answers of the provider make a teams fetch fail: no attempt
\* succeeds, or the first document that arrives has no team with an id and
\* an abbreviation
NoAnswer(script) == \A k \in 1..MAX_RETRIES : ~script[k].ok

FirstDoc(script) == script[CHOOSE k \in 1..MAX_RETRIES : script[k].ok /\ \A j \in 1..(k - 1) : ~script[j].ok].doc

UsableTeams(doc) ==
    IF doc.sports = <<>> THEN {}
    ELSE IF doc.sports[1].leagues = <<>> THEN {}
    ELSE {i \in 1..Len(doc.sports[1].leagues[1].teams) :
             /\ doc.sports[1].leagues[1].teams[i].id # 0
             /\ Strip(doc.sports[1].leagues[1].teams[i].abbreviation) # <<>>}

ReloadFails(script) == NoAnswer(script) \/ UsableTeams(FirstDoc(script)) = {}

\* C9 as claimed: with a previous map in the cache a lookup never fails; a
\* failed reload is answered from the previous map.
C9_Original ==
    LookupWithMap => (last.ok /\ last.map = TEAM_MAP_CACHE.map)

\* C9: a reload that fails raises its error to the caller whether or not a
\* previous map exists, and leaves the cache and its timestamp as they were.
C9_FailedReloadRaises ==
    [][(last'.op = "load_team_map" /\ last'.fetches = 1 /\ ReloadFails(last'.script)) =>
          /\ ~last'.ok
          /\ last'.err = IF NoAnswer(last'.script)
                         THEN last'.script[MAX_RETRIES].err
                         ELSE "Failed to load team list from ESPN."
          /\ TEAM_MAP_CACHE' = TEAM_MAP_CACHE
          /\ TEAM_MAP_CACHE_TS' = TEAM_MAP_CACHE_TS]_vars

\* a reload failed although a previous map was there, and the map is kept
C9_Witness ==
    /\ LookupWithMap
    /\ last.fetches = 1
    /\ ReloadFails(last.script)
    /\ ~last.ok
    /\ Truthy(TEAM_MAP_CACHE)
    /\ clock - TEAM_MAP_CACHE_TS >= TEAM_MAP_TTL_SECONDS

----------------------------------------------------------------------------
(* Properties of the fetch layer (SpecFetch) *)

\* the attempts of script that succeed
Successes(script) == {k \in 1..MAX_RETRIES : script[k].ok}

\* C10: one get_json_with_retries call makes at most 4 HTTP attempts; it
\* returns the document of the first attempt that succeeds and makes no
\* attempt after it; when all 4 fail it raises the error of the 4th.
C10_RetryBound ==
    (last.op = "get_json_with_retries") =>
        /\ last.attempts \in 1..4
        /\ (Successes(last.script) # {}) =>
              /\ last.ok
              /\ \A k \in Successes(last.script) : last.attempts <= k
              /\ last.attempts \in Successes(last.script)
              /\ last.doc = last.script[last.attempts].doc
        /\ (Successes(last.script) = {}) =>
              /\ ~last.ok
              /\ last.attempts = 4
              /\ last.err = last.script[4].err

\* four failed attempts whose last error differs from the earlier ones
C10_Witness ==
    /\ last.op = "get_json_with_retries"
    /\ Successes(last.script) = {}
    /\ \A k \in 1..3 : last.script[k].err # last.script[4].err
    /\ last.attempts = 4
    /\ last.err = last.script[4].err

\* the waits after the first, second, third and fourth failed attempt
WaitsOnExhaustion == <<2, 4, 8, 10>>

RECURSIVE SumOf(_)
SumOf(waits) == IF waits = <<>> THEN 0 ELSE Head(waits) + SumOf(Tail(waits))

\* C29: every failed attempt of get_json_with_retries is followed by a wait,
\* the fourth and last one too, so that four failed attempts wait 2, 4, 8 and
\* 10 time units, 24 in all, before the error is raised; no wait follows the
\* attempt that succeeds.
C29_WaitsOnExhaustion ==
    (last.op = "get_json_with_retries") =>
        /\ \A k \in 1..Len(last.sleeps) : ~last.script[k].ok /\ last.sleeps[k] = WaitsOnExhaustion[k]
        /\ last.ok => Len(last.sleeps) = last.attempts - 1
        /\ ~last.ok =>
              /\ last.sleeps = WaitsOnExhaustion
              /\ SumOf(last.sleeps) = 24

\* four attempts failed and four waits were made, the last of 10
C29_Witness ==
    /\ last.op = "get_json_with_retries"
    /\ ~last.ok
    /\ last.attempts = 4
    /\ Len(last.sleeps) = 4
    /\ last.sleeps[4] = 10

----------------------------------------------------------------------------
(* Properties of the event loop (SpecLoop) *)

\* the waits the backoff schedule asks for after failed attempts 1, 2, 3
ScheduledWaits == <<2, 4, 8>>

\* C11: for k = 1, 2, 3 the handler that leaves the sleep after failed
\* attempt k and starts attempt k+1 asked for a wait of exactly 2, 4, 8 time
\* units, and that much time has passed since attempt k failed.
C11_BackoffSchedule ==
    [][\A q \in Requests :
         (tasks[q].pc = "sleep" /\ tasks'[q].pc = "attempt")
         => /\ tasks[q].attempt \in 1..3
            /\ tasks'[q].attempt = tasks[q].attempt + 1
            /\ tasks[q].delay = ScheduledWaits[tasks[q].attempt]
            /\ clock >= tasks[q].failed_at + ScheduledWaits[tasks[q].attempt]]_vars

\* attempt 4 is running: three waits of 2, 4 and 8 lie behind it
C11_Witness ==
    \E q \in Requests : tasks[q].pc = "attempt" /\ tasks[q].attempt = 4 /\ clock >= 14

----------------------------------------------------------------------------
(* Properties of load_team_map under interleaving (SpecSteps) *)

\* the mappings of the whole teams lists the provider may answer with
CompleteMaps ==
    {BuildTeamMap(TeamsListOf(script[1].doc), <<>>) : script \in {FirstTry(TeamsDocFull), FirstTry(TeamsDocRenumbered)}}

\* C19: whatever the interleaving of lookups and reloads, the cache changes
\* only by taking a complete newly built mapping, and the mapping a lookup
\* returns is complete and is the one the cache held before the step or the
\* one the caller built and installed; no mapping is changed once installed.
C19_AtomicReplace ==
    [][/\ TEAM_MAP_CACHE' # TEAM_MAP_CACHE =>
            /\ Truthy(TEAM_MAP_CACHE')
            /\ TEAM_MAP_CACHE'.map \in CompleteMaps
            /\ \E w \in Callers : tasks[w].pc = "build" /\ tasks[w].todo = <<>>
                                  /\ TEAM_MAP_CACHE'.map = tasks[w].m
       /\ \A w \in Callers :
            (tasks[w].pc # "returned" /\ tasks'[w].pc = "returned") =>
                /\ tasks'[w].ret \in CompleteMaps
                /\ \/ Truthy(TEAM_MAP_CACHE) /\ tasks'[w].ret = TEAM_MAP_CACHE.map
                   \/ tasks[w].pc = "stamp" /\ tasks'[w].ret = tasks[w].m]_vars

\* a lookup returns the previous mapping while a reload holds a half-built
\* new one
C19_Witness ==
    \E v, w \in Callers :
        /\ tasks[v].pc = "returned"
        /\ tasks[v].ret = TEAM_MAP_CACHE.map
        /\ tasks[w].pc = "build"
        /\ tasks[w].todo # <<>>
        /\ DOMAIN tasks[w].m # {}
        /\ tasks[w].m \notin CompleteMaps

\* C18: while the handler of one request waits in the backoff of the fetch
\* layer, another request that has been received can make progress: its
\* handler can be started before that wait ends.
C18_Original ==
    \A a, b \in Requests :
        (a # b /\ tasks[a].pc = "sleep" /\ tasks[b].pc = "queued") => ENABLED Dispatch(b)

----------------------------------------------------------------------------
(* Properties of the /preds report (SpecReport) *)

ReportMade == last.op = "preds_cmd" /\ last.status = "report"

\* the id the team directory gives abbr after the report, 0 if it gives none
KnownId(abbr) ==
    IF Truthy(TEAM_MAP_CACHE) /\ abbr \in DOMAIN TEAM_MAP_CACHE.map
    THEN TEAM_MAP_CACHE.map[abbr].id ELSE 0

ReportKey(abbr) == CacheKey(KnownId(abbr), espn_season_year_for_date(last.d), last.d)

\* the report could resolve both teams of g and obtain both histories
Predictable(g) ==
    /\ KnownId(g.away_abbr) # 0
    /\ KnownId(g.home_abbr) # 0
    /\ ReportKey(g.away_abbr) \in DOMAIN SCHEDULE_WINS_CACHE
    /\ ReportKey(g.home_abbr) \in DOMAIN SCHEDULE_WINS_CACHE

ReportWins(abbr, n) == WinsIn(SCHEDULE_WINS_CACHE[ReportKey(abbr)], n)

ReportGames(abbr, n) == GamesIn(SCHEDULE_WINS_CACHE[ReportKey(abbr)], n)

\* the winner the last10 -> last5 -> home rules give g
RuleWinner(g) ==
    IF ReportWins(g.away_abbr, 10) # ReportWins(g.home_abbr, 10)
    THEN (IF ReportWins(g.away_abbr, 10) > ReportWins(g.home_abbr, 10) THEN g.away_abbr ELSE g.home_abbr)
    ELSE IF ReportWins(g.away_abbr, 5) > ReportWins(g.home_abbr, 5) THEN g.away_abbr
    ELSE g.home_abbr

IsPredictionLine(line) == line[4] = "  ->  winner *"

IsErrorLine(line) == line[4] = "  ->  (error: "

\* C12: a report has its header and then exactly one entry per game of the
\* scoreboard, in scoreboard order; the entry of a game whose teams resolve
\* and whose histories are available is its prediction (the winner the rules
\* give, with the two last-10 records), whatever happened to the other
\* games; the entry of any other game is one inline error line.
C12_PartialFailureIsolation ==
    ReportMade =>
        /\ Len(last.out_lines) = Len(last.games) + 1
        /\ \A i \in 1..Len(last.games) :
              LET g    == last.games[i]
                  line == last.out_lines[i + 1]
              IN  /\ line[1] = g.away_abbr
                  /\ line[3] = g.home_abbr
                  /\ IF Predictable(g)
                     THEN /\ IsPredictionLine(line)
                          /\ line[5] = RuleWinner(g)
                          /\ line[10] = ReportWins(g.away_abbr, 10)
                          /\ line[12] = ReportGames(g.away_abbr, 10) - ReportWins(g.away_abbr, 10)
                          /\ line[16] = ReportWins(g.home_abbr, 10)
                          /\ line[18] = ReportGames(g.home_abbr, 10) - ReportWins(g.home_abbr, 10)
                     ELSE IsErrorLine(line)

\* three games: the second names an unknown team and has an error line, the
\* first and the third have their predictions
C12_Witness ==
    /\ ReportMade
    /\ Len(last.games) = 3
    /\ Predictable(last.games[1])
    /\ KnownId(last.games[2].away_abbr) = 0
    /\ Predictable(last.games[3])
    /\ IsPredictionLine(last.out_lines[2])
    /\ IsErrorLine(last.out_lines[3])
    /\ IsPredictionLine(last.out_lines[4])

\* the report looked the team directory up and could not load it at all:
\* there was no previous mapping and there is none now
DirectoryUnavailable ==
    /\ last.op = "preds_cmd"
    /\ last.games # <<>>
    /\ ~last.hadMap
    /\ ~Truthy(TEAM_MAP_CACHE)

\* no scoreboard url answered
ScoreboardUnavailable == last.op = "preds_cmd" /\ last.status = "schedule_error"

\* C13: when the team directory cannot be loaded at all or the scoreboard
\* cannot be fetched from any endpoint, no report is made: exactly one
\* message is sent and there are no per-matchup lines.
C13_Original ==
    (DirectoryUnavailable \/ ScoreboardUnavailable) =>
        /\ last.status # "report"
        /\ Len(last.sent) = 1
        /\ Len(last.out_lines) <= 1

----------------------------------------------------------------------------
(* Properties of the split into blocks (SpecBlocks) *)

\* the blocks one after the other
RECURSIVE Concat(_)
Concat(blocks) == IF blocks = <<>> THEN <<>> ELSE Head(blocks) \o Concat(Tail(blocks))

\* C14: the blocks handed to send_text, concatenated in order, are the
\* report text; no block is longer than the maximum; a text no longer than
\* the maximum is one block.
C14_ChunkRoundTrip ==
    last.op = "send_in_blocks" =>
        /\ Concat(last.blocks) = last.text
        /\ \A k \in 1..Len(last.blocks) : Len(last.blocks[k]) <= last.max
        /\ (Len(last.text) <= last.max => Len(last.blocks) = 1)

\* a text of two blocks of MAX characters and one more character
C14_Witness ==
    /\ last.op = "send_in_blocks"
    /\ last.max = MAX
    /\ Len(last.text) = 2 * MAX + 1
    /\ Len(last.blocks) = 3
    /\ Len(last.blocks[3]) = 1

----------------------------------------------------------------------------
(* Properties of the FPL rankings (SpecRank, SpecRankAny) *)

WeeklyComputed == last.op = "compute_weekly_fpl"

\* the players of position pos whose history was fetched and is not empty,
\* by their place in the elements
Ranked(pos) ==
    {i \in 1..Len(last.boot.elements) :
        /\ PosOf(last.boot.elements[i]) = pos
        /\ last.summaries[last.boot.elements[i].id].ok
        /\ Get(last.summaries[last.boot.elements[i].id].doc, "history", <<>>) # <<>>}

\* the snapshots of the window of the player at place i
WindowOf(i) == LastRows(last.summaries[last.boot.elements[i].id].doc.history, last.last_n)

AppsOf(i) == Appearances(WindowOf(i))

MinutesOf(i) == SumGet(WindowOf(i), "minutes")

PointsOf(i) == SumGet(WindowOf(i), "total_points")

\* the players of position pos that pass the two thresholds
Passing(pos) == {i \in Ranked(pos) : AppsOf(i) >= last.min_apps /\ MinutesOf(i) >= last.min_total_min}

\* the key tuple of the player at place i
KeyOf(i) == << <<PointsOf(i), AppsOf(i)>>, <<PointsOf(i), 1>>, <<AppsOf(i), 1>>, <<MinutesOf(i), 1>> >>

\* the row at place k of list rows is the row of player f[k]
IsRowOf(row, i) ==
    /\ row.key = KeyOf(i)
    /\ row.name = PlayerName(last.boot.elements[i])
    /\ row.team = TeamOf(TeamNames(last.boot), last.boot.elements[i])

\* C15: compute_weekly_fpl returns, and for every position its list has at
\* most top_n rows, is non-increasing in the key tuple (points per
\* appearance, total points, appearances, total minutes), and consists of
\* the rows of top_n passing players (of all of them if they are fewer) none
\* of which is less than a passing player left out.
C15_RankedLists ==
    WeeklyComputed =>
        /\ last.ok
        /\ \A pos \in {"GK", "DEF", "MID", "FWD"} :
              LET rows == last.top_by_pos[pos]
              IN  /\ Len(rows) = Min(last.top_n, Cardinality(Passing(pos)))
                  /\ \A k \in 1..(Len(rows) - 1) : ~KeyLess(rows[k].key, rows[k + 1].key)
                  /\ \E f \in [1..Len(rows) -> Passing(pos)] :
                        /\ \A j, k \in 1..Len(rows) : f[j] = f[k] => j = k
                        /\ \A k \in 1..Len(rows) : IsRowOf(rows[k], f[k])
                        /\ \A i \in Passing(pos) \ {f[k] : k \in 1..Len(rows)} :
                              \A k \in 1..Len(rows) : ~KeyLess(rows[k].key, KeyOf(i))

\* three defenders pass, two are kept, and the one left out comes first in
\* the elements
C15_Witness ==
    /\ WeeklyComputed
    /\ last.top_n = 2
    /\ Cardinality(Passing("DEF")) = 3
    /\ Len(last.top_by_pos["DEF"]) = 2
    /\ \A k \in 1..2 : ~IsRowOf(last.top_by_pos["DEF"][k], 1)
    /\ KeyLess(last.top_by_pos["DEF"][2].key, last.top_by_pos["DEF"][1].key)

KeyEqual(k1, k2) == ~KeyLess(k1, k2) /\ ~KeyLess(k2, k1)

\* the place in the elements of the player a row names
PlaceOf(row) ==
    CHOOSE i \in 1..Len(last.boot.elements) : PlayerName(last.boot.elements[i]) = row.name

\* rows of equal key stand in the order of their players in the elements,
\* and a player left out whose key equals the key of a row comes later in the
\* elements than the player of that row; keys maps the places of the players
\* that were appended to their keys
TiesInListedOrder(rows, keys) ==
    /\ \A j, k \in 1..Len(rows) :
          (j < k /\ KeyEqual(rows[j].key, rows[k].key)) => PlaceOf(rows[j]) < PlaceOf(rows[k])
    /\ \A i \in (DOMAIN keys) \ {PlaceOf(rows[k]) : k \in 1..Len(rows)} :
          \A k \in 1..Len(rows) : KeyEqual(rows[k].key, keys[i]) => PlaceOf(rows[k]) < i

\* the key tuple of the defensive row of the player at place i
DcKeyOf(i) ==
    << <<SumFirst(WindowOf(i), <<"defensive_contribution", "defcon">>), AppsOf(i)>>,
       <<SumFirst(WindowOf(i), <<"defensive_contribution", "defcon">>), 1>>,
       <<SumFirst(WindowOf(i), <<"defensive_contribution_points", "defcon_points">>), 1>>,
       <<AppsOf(i), 1>> >>

\* the history of the player at place i, empty when it was not fetched
FetchedHistory(i) ==
    IF last.summaries[last.boot.elements[i].id].ok
    THEN Get(last.summaries[last.boot.elements[i].id].doc, "history", <<>>)
    ELSE <<>>

\* the places in the history of the snapshots of the last finished gameweek
GwPlaces(i) == {j \in 1..Len(FetchedHistory(i)) : Get(FetchedHistory(i)[j], "round", 0) = last.last_gw}

GwSnapshot(i) == FetchedHistory(i)[CHOOSE j \in GwPlaces(i) : \A k \in GwPlaces(i) : j <= k]

\* the players of position pos with enough minutes in the last finished gameweek
Played(pos) ==
    {i \in 1..Len(last.boot.elements) :
        /\ PosOf(last.boot.elements[i]) = pos
        /\ GwPlaces(i) # {}
        /\ Get(GwSnapshot(i), "minutes", 0) >= last.min_minutes}

GwKeyOf(i) == << <<Get(GwSnapshot(i), "total_points", 0), 1>>, <<Get(GwSnapshot(i), "minutes", 0), 1>> >>

\* C26: in the weekly ranking and in the ranking of the last gameweek, rows
\* of equal sort key stand in the order in which the provider listed their
\* players, and the cut to top_n keeps the earlier listed of tied players.
C26_TieOrder ==
    /\ WeeklyComputed =>
          /\ last.ok
          /\ \A pos \in {"GK", "DEF", "MID", "FWD"} :
                TiesInListedOrder(last.top_by_pos[pos], [i \in Passing(pos) |-> KeyOf(i)])
          /\ \A pos \in {"DEF", "MID", "FWD"} :
                TiesInListedOrder(last.top_defcon[pos], [i \in Passing(pos) |-> DcKeyOf(i)])
    /\ last.op = "compute_top_last_gw_by_position" =>
          \A pos \in {"GK", "DEF", "MID", "FWD"} :
             TiesInListedOrder(last.buckets[pos], [i \in Played(pos) |-> GwKeyOf(i)])

\* three defenders are tied and one row is kept: the row of the defender
\* listed first
C26_Witness ==
    /\ WeeklyComputed
    /\ last.top_n = 1
    /\ Cardinality(Passing("DEF")) = 3
    /\ \A i \in Passing("DEF") : KeyEqual(KeyOf(i), KeyOf(1))
    /\ Len(last.top_by_pos["DEF"]) = 1
    /\ PlaceOf(last.top_by_pos["DEF"][1]) = 1

\* the rows of the lists of a ranking
RowsOf(lists) == UNION {{lists[pos][k] : k \in 1..Len(lists[pos])} : pos \in DOMAIN lists}

\* C16: whatever the two thresholds are set to, compute_weekly_fpl divides
\* by no zero: it returns, and every row it returns is of a player with at
\* least one appearance who reaches both thresholds.
C16_Original ==
    WeeklyComputed =>
        /\ last.err # "ZeroDivisionError"
        /\ last.ok
        /\ \A row \in RowsOf(last.top_by_pos) :
              row.apps >= 1 /\ row.apps >= last.min_apps /\ row.mins >= last.min_total_min

\* the players whose history fetch failed, by their place in the elements
Failing == {i \in 1..Len(last.boot.elements) : ~last.summaries[last.boot.elements[i].id].ok}

\* the elements without those at the places in `out`
RECURSIVE Without(_, _, _)
Without(elements, out, i) ==
    IF elements = <<>> THEN <<>>
    ELSE (IF i \in out THEN <<>> ELSE << Head(elements) >>) \o Without(Tail(elements), out, i + 1)

\* the bootstrap document without the players whose history fetch failed
BootOfTheRest == [last.boot EXCEPT !.elements = Without(last.boot.elements, Failing, 1)]

\* C17: when the history fetch fails for some players, each ranking call
\* completes and returns what it returns for the remaining players alone.
C17_PlayerFailureIsolation ==
    /\ (WeeklyComputed /\ Failing # {}) =>
          /\ last.ok
          /\ LET rest == compute_weekly_fpl(BootOfTheRest, last.summaries, last.top_n,
                                            last.last_n, last.min_apps, last.min_total_min)
             IN  last.top_by_pos = rest.top_by_pos /\ last.top_defcon = rest.top_defcon
    /\ (last.op = "compute_top_last_gw_by_position" /\ Failing # {}) =>
          LET rest == compute_top_last_gw_by_position(BootOfTheRest, last.summaries,
                                                      last.top_n, last.min_minutes)
          IN  last.last_gw = rest.last_gw /\ last.buckets = rest.buckets

\* the first defender's history could not be fetched; the two others are ranked
C17_Witness ==
    /\ WeeklyComputed
    /\ Failing = {1}
    /\ last.ok
    /\ Len(last.top_by_pos["DEF"]) = 2

----------------------------------------------------------------------------
(* Properties of the season of a date (SpecSeason) *)

\* C20: the season of a date is the date's year when its month is October to
\* December and the year before when its month is January to September; so
\* 2026-02-19 is of season 2025, 2025-11-01 of season 2025 and 2025-09-30 of
\* season 2024.
C20_SeasonRule ==
    last.op = "espn_season_year_for_date" =>
        /\ last.d.m \in 10..12 => last.season = last.d.y
        /\ last.d.m \in 1..9 => last.season = last.d.y - 1
        /\ last.d = Date(2026, 2, 19) => last.season = 2025
        /\ last.d = Date(2025, 11, 1) => last.season = 2025
        /\ last.d = Date(2025, 9, 30) => last.season = 2024

\* the last day of September is still of the season before
C20_Witness ==
    /\ last.op = "espn_season_year_for_date"
    /\ last.d = Date(2025, 9, 30)
    /\ last.season = 2024

----------------------------------------------------------------------------
(* Properties of the abbreviations (SpecAbbr) *)

\* C21: normalising an abbreviation twice gives what normalising it once
\* gives, for every string and for an absent input; no value of the table of
\* corrections is a key of it; "GS" becomes "GSW" and "NY" becomes "NYK".
C21_NormalizeIdempotent ==
    /\ \A k \in DOMAIN ABBR_FIX : ABBR_FIX[k] \notin DOMAIN ABBR_FIX
    /\ last.op = "normalize_abbr" =>
          /\ last.twice = last.once
          /\ last.abbr = <<"G","S">> => last.once = <<"G","S","W">>
          /\ last.abbr = <<"N","Y">> => last.once = <<"N","Y","K">>

\* a lower-case alias with a blank around it has been corrected
C21_Witness ==
    /\ last.op = "normalize_abbr"
    /\ last.abbr = <<"g","S"," ">>
    /\ last.once = <<"G","S","W">>
    /\ last.twice = <<"G","S","W">>

----------------------------------------------------------------------------
(* Properties of the schedule wins cache under failures (SpecHistory) *)

\* C28: when the schedule fetch for a key fails after all retries the error
\* leaves fetch_team_recent_wins and the cache is as it was, without an entry
\* for the key, so that a later call for the key fetches again; a fetch that
\* succeeds with no event that counts stores the empty sequence, and a key
\* that is stored, the empty sequence included, is answered without a fetch.
C28_NoNegativeCaching ==
    [][last'.op = "fetch_team_recent_wins" =>
          /\ ~last'.ok =>
                /\ last'.err # "-"
                /\ SCHEDULE_WINS_CACHE' = SCHEDULE_WINS_CACHE
                /\ last'.key \notin DOMAIN SCHEDULE_WINS_CACHE'
          /\ last'.key \notin DOMAIN SCHEDULE_WINS_CACHE => last'.fetches = 1
          /\ (last'.ok /\ last'.flags = <<>>) =>
                /\ last'.key \in DOMAIN SCHEDULE_WINS_CACHE'
                /\ SCHEDULE_WINS_CACHE'[last'.key] = <<>>
          /\ last'.key \in DOMAIN SCHEDULE_WINS_CACHE =>
                /\ last'.fetches = 0
                /\ last'.ok
                /\ last'.flags = SCHEDULE_WINS_CACHE[last'.key]
                /\ SCHEDULE_WINS_CACHE' = SCHEDULE_WINS_CACHE]_vars

\* the fetch for a key failed while the cache holds an empty sequence for
\* another key
C28_Witness ==
    /\ last.op = "fetch_team_recent_wins"
    /\ ~last.ok
    /\ last.fetches = 1
    /\ last.key \notin DOMAIN SCHEDULE_WINS_CACHE
    /\ \E k \in DOMAIN SCHEDULE_WINS_CACHE : SCHEDULE_WINS_CACHE[k] = <<>>

----------------------------------------------------------------------------
(* Properties of the outcomes of a schedule (SpecWins) *)

WinsComputed == last.op = "fetch_team_recent_wins" /\ "events" \in DOMAIN last

\* the event has a date, and its calendar day is before the cutoff day
Earlier(ev) == ev.date.kind = "iso" /\ DateLess(ev.date.date, last.cutoff_date)

Completed(ev) == ev.competitions # <<>> /\ ev.competitions[1].completed

\* the competitors of the event that carry the team's identifier
Carrying(ev) ==
    IF ev.competitions = <<>> THEN {}
    ELSE {i \in DOMAIN ev.competitions[1].competitors :
             ev.competitions[1].competitors[i].tid = last.team_id}

FirstCarrying(ev) == CHOOSE i \in Carrying(ev) : \A j \in Carrying(ev) : i <= j

Qualifying ==
    {i \in DOMAIN last.events :
        Earlier(last.events[i]) /\ Completed(last.events[i]) /\ Carrying(last.events[i]) # {}}

EarlierCompleted ==
    {i \in DOMAIN last.events : Earlier(last.events[i]) /\ Completed(last.events[i])}

\* flags lists the events of `chosen` once each, later games first
ListedMostRecentFirst(flags, chosen) ==
    /\ Len(flags) = Cardinality(chosen)
    /\ \E f \in [1..Len(flags) -> chosen] :
          /\ \A i, j \in 1..Len(flags) : i # j => f[i] # f[j]
          /\ \A i, j \in 1..Len(flags) :
                i < j => DtKey(last.events[f[i]].date) >= DtKey(last.events[f[j]].date)
          /\ \A i \in 1..Len(flags) :
                flags[i] = (last.events[f[i]].competitions[1].competitors[FirstCarrying(last.events[f[i]])].winner = "true")

\* C22 as stated: the outcomes have one entry for exactly the events that are
\* completed and of a day before the cutoff day.
C22_Original ==
    WinsComputed => Len(last.flags) = Cardinality(EarlierCompleted)

\* C22: the outcomes have one entry for exactly the events that are
\* completed, of a calendar day before the cutoff day, and in which a
\* competitor carries the team's identifier; games of later date and time
\* come first.
C22_OutcomeHistory ==
    WinsComputed =>
        /\ last.ok
        /\ ListedMostRecentFirst(last.flags, Qualifying)

\* two games before the cutoff came in chronological order and one on the
\* cutoff day; the later of the two, a loss, is listed first
C22_Witness ==
    /\ WinsComputed
    /\ Cardinality(Qualifying) = 2
    /\ Len(last.events) = 3
    /\ \E i \in DOMAIN last.events : last.events[i] = Game(WinsTeam, 10, 21, W)
    /\ last.events[1] = Game(WinsTeam, 10, 19, W)
    /\ last.flags = <<FALSE, TRUE>>

\* the event has no date that parses, no competition, or no winner told for
\* the team
Lacking(ev) ==
    \/ ev.date.kind # "iso"
    \/ ev.competitions = <<>>
    \/ Carrying(ev) = {}
    \/ ev.competitions[1].competitors[FirstCarrying(ev)].winner = "absent"

\* C23: an event without a date that parses, without competitions or without
\* a winner told for the team (no competitor of the team, or one without
\* the winner flag) adds no entry, and the other events are still counted.
C23_Original ==
    WinsComputed =>
        /\ last.ok
        /\ Len(last.flags) =
              Cardinality({i \in EarlierCompleted : ~Lacking(last.events[i])})

----------------------------------------------------------------------------
(* Properties of the records (SpecRecord) *)

RecordCounted == last.op = "record_last_n" /\ "w5" \in DOMAIN last

\* the positions of the first n entries of the cached sequence of the key
FirstEntries(n) ==
    {i \in 1..Len(SCHEDULE_WINS_CACHE[RecordKey]) : i <= n}

\* C24: for every cached sequence and every n >= 0 the record counts the
\* true and the false entries among the first min(n, length) entries, so wins
\* plus losses is min(n, length); the wins over the last 5 games never exceed
\* the wins over the last 10 games of the same key.
C24_RecordLastN ==
    RecordCounted =>
        /\ last.ok
        /\ last.w = Cardinality({i \in FirstEntries(last.n) : SCHEDULE_WINS_CACHE[RecordKey][i]})
        /\ last.l = Cardinality({i \in FirstEntries(last.n) : ~SCHEDULE_WINS_CACHE[RecordKey][i]})
        /\ last.w + last.l = Min(last.n, Len(SCHEDULE_WINS_CACHE[RecordKey]))
        /\ last.w5 <= last.w10
        /\ last.fetches = 0

\* five losses, then two wins: 0-5 over the last five games, two wins over
\* the last ten
C24_Witness ==
    /\ RecordCounted
    /\ SCHEDULE_WINS_CACHE[RecordKey] = <<FALSE, FALSE, FALSE, FALSE, FALSE, TRUE, TRUE>>
    /\ last.n = 5
    /\ last.w = 0
    /\ last.l = 5
    /\ last.w10 = 2

----------------------------------------------------------------------------
(* Properties of the last finished period (SpecPeriods) *)

PeriodsOf(boot) == IF "events" \in DOMAIN boot THEN boot.events ELSE <<>>

FinishedPeriods(boot) ==
    {PeriodsOf(boot)[i].id : i \in {j \in DOMAIN PeriodsOf(boot) :
        "finished" \in DOMAIN PeriodsOf(boot)[j] /\ PeriodsOf(boot)[j].finished}}

PeriodsInProgress(boot) ==
    {PeriodsOf(boot)[i].id : i \in {j \in DOMAIN PeriodsOf(boot) :
        "is_current" \in DOMAIN PeriodsOf(boot)[j] /\ PeriodsOf(boot)[j].is_current}}

\* C25: the last finished period is the highest-numbered period marked
\* finished when there is one; otherwise the period in progress minus one
\* when a period greater than 1 is in progress, and 1 in every other case;
\* it is never below 1.
C25_LastFinishedPeriod ==
    last.op = "get_last_finished_gw" =>
        /\ last.gw >= 1
        /\ FinishedPeriods(last.boot) # {} =>
              /\ last.gw \in FinishedPeriods(last.boot)
              /\ \A id \in FinishedPeriods(last.boot) : id <= last.gw
        /\ FinishedPeriods(last.boot) = {} =>
              /\ \A id \in PeriodsInProgress(last.boot) : id > 1 => last.gw = id - 1
              /\ (\A id \in PeriodsInProgress(last.boot) : id <= 1) => last.gw = 1

\* no period is finished and period 3 is in progress
C25_Witness ==
    /\ last.op = "get_last_finished_gw"
    /\ FinishedPeriods(last.boot) = {}
    /\ PeriodsInProgress(last.boot) = {3}
    /\ last.gw = 2

----------------------------------------------------------------------------
(* Properties of the scoreboard fetch (SpecBoard) *)

\* the attempts of a url that answer
Answering(script) == {k \in 1..MAX_RETRIES : script[k].ok}

\* the document of the first attempt that answers
AnswerOf(script) == script[CHOOSE k \in Answering(script) : \A j \in Answering(script) : k <= j].doc

\* the url answers with a document all of whose events are objects
Succeeds(script) ==
    /\ Answering(script) # {}
    /\ \A i \in DOMAIN AnswerOf(script).events : "string" \notin DOMAIN AnswerOf(script).events[i]

\* the error the url ends with
FailureOf(script) == IF Answering(script) = {} THEN script[MAX_RETRIES].err ELSE "AttributeError"

\* the competitors of an event on one side
OnSide(ev, side) ==
    IF ev.competitions = <<>> THEN {}
    ELSE {i \in DOMAIN ev.competitions[1].competitors : ev.competitions[1].competitors[i].homeAway = side}

\* the abbreviation of the side: of the last competitor on it
AbbrOfSide(ev, side) ==
    normalize_abbr(ev.competitions[1].competitors[
        CHOOSE i \in OnSide(ev, side) : \A j \in OnSide(ev, side) : j <= i].team.abbreviation)

HasBothSides(ev) ==
    /\ OnSide(ev, "home") # {} /\ AbbrOfSide(ev, "home") # <<>>
    /\ OnSide(ev, "away") # {} /\ AbbrOfSide(ev, "away") # <<>>

\* one matchup per event with both sides, in the order of the events
RECURSIVE MatchupsOf(_)
MatchupsOf(events) ==
    IF events = <<>> THEN <<>>
    ELSE (IF HasBothSides(Head(events))
          THEN << Matchup(AbbrOfSide(Head(events), "away"), AbbrOfSide(Head(events), "home")) >>
          ELSE <<>>) \o MatchupsOf(Tail(events))

\* C30: the scoreboard urls are asked in their order; the second is asked
\* only after the first failed (no attempt answered, or the answer could not
\* be processed); the matchups are those of the first url that succeeds, one
\* per event with a home and an away side, in event order, and no later url
\* is asked; the error of the last url is raised only when every url failed.
C30_ScoreboardFallback ==
    last.op = "fetch_scoreboard_games_utc" =>
        /\ Succeeds(last.scripts[1]) =>
              /\ last.ok
              /\ last.fetches = 1
              /\ last.url = 1
              /\ last.games = MatchupsOf(AnswerOf(last.scripts[1]).events)
        /\ (~Succeeds(last.scripts[1]) /\ Succeeds(last.scripts[2])) =>
              /\ last.ok
              /\ last.fetches = 2
              /\ last.url = 2
              /\ last.games = MatchupsOf(AnswerOf(last.scripts[2]).events)
        /\ (~Succeeds(last.scripts[1]) /\ ~Succeeds(last.scripts[2])) =>
              /\ ~last.ok
              /\ last.fetches = 2
              /\ last.err = FailureOf(last.scripts[2])

\* the answer of the first url could not be processed; the second url gave
\* one game among events without both sides
C30_Witness ==
    /\ last.op = "fetch_scoreboard_games_utc"
    /\ last.scripts[1] = FirstTry(ScoreboardMalformed)
    /\ last.scripts[2] = SecondTry(ScoreboardIrregular)
    /\ last.url = 2
    /\ last.games = << Matchup(GSW, BOS) >>

----------------------------------------------------------------------------
(* C31: live goal events are delivered at most once *)

\* the number of messages delivered to the chat for a key
DeliveriesOf(key) == Cardinality({i \in 1..Len(chat) : chat[i] = key})

\* the persisted seen set stays below the number of keys save_set keeps
BelowKeepLast == Cardinality(load_set(live_seen)) < KEEP_LAST

\* C31: over any sequence of post_live_events polls that share the persisted
\* seen set (fewer than 5000 keys), polls in which a delivery fails partway
\* through included, each goal-event key is delivered to the chat at most once
C31_Original ==
    BelowKeepLast => \A i \in 1..Len(chat) : DeliveriesOf(chat[i]) <= 1

\* as long as no send_message has raised, no key is delivered twice
OnceWithoutFailure ==
    (last.op = "post_live_events" /\ ~last.raised /\ BelowKeepLast)
        => \A i \in 1..Len(last.sent) :
              /\ last.sent[i] \notin last.before
              /\ \A j \in 1..Len(last.sent) : last.sent[i] = last.sent[j] => i = j

\* a poll delivered a message and then a send_message raised: the keys it
\* delivered are not in the file
DeliveriesLost ==
    /\ last.op = "post_live_events"
    /\ last.raised
    /\ last.sent # <<>>
    /\ \A i \in 1..Len(last.sent) : last.sent[i] \notin load_set(live_seen)

====
